---- MODULE Spec2Model ----
(***************************************************************************)
(* Model of the DI-1141 annotation-mismatch reconciliation pipeline:       *)
(*   compare_vcf_hgvs.py      (merge two VEP versions, find mismatches)    *)
(*   query_validator_api.py   (query VariantValidator in chunks)           *)
(*   compare_validator_vcf.py (reconcile with the oracle, classify)        *)
(* Strings are sequences of one-character strings, so that startswith,     *)
(* endswith, split, join and replace are computed as the code computes     *)
(* them. A missing value (pandas NaN / None) is the sentinel NaN.          *)
(***************************************************************************)
EXTENDS Integers, Sequences, FiniteSets, TLC

VARIABLES
  \* ---- compare_vcf_hgvs.py
  vep_old,            \* what the old VEP version annotates, per key (input files)
  vep_new,            \* what the new VEP version annotates, per key (input files)
  annotations_old,    \* read_file: table of the current sample, old VEP
  annotations_new,    \* read_file: table of the current sample, new VEP
  all_dfs,            \* main: list of per-sample mismatch tables
  sample,             \* main: number of sample pairs processed
  any_mismatches,     \* main: concatenated, deduplicated table
  any_mismatches_tsv, \* the file any_mismatches.tsv (cells are text)
  unique_variants,    \* the file unique_variants_0.txt
  unique_transcripts, \* the file unique_transcripts_0.txt
  \* ---- query_validator_api.py
  input_file,         \* args.input_file: the mismatch file given to the script
  mismatches_df,      \* read_in_mismatches
  records,            \* tx_by_variant.to_dict("records"): the work items
  chunk_size,         \* args.chunks
  chunked,            \* list(chunks(records, args.chunks))
  files,              \* output_dir: validator_{assay}_chunk{k}.tsv, per k
  existing,           \* the chunk files that existed when the script started
  csv_files,          \* output_dir: the files validator*.csv
  index,              \* query_chunks_and_output: enumerate index + 1
  row,                \* query_chunks_and_output: position in the chunk
  all_results,        \* query_chunks_and_output: results of the chunk so far
  elapsed,            \* ratelimit: clock() - last_reset, in ticks (saturating)
  num_calls,          \* ratelimit: calls counted in the current window
  attempt,            \* tenacity: attempt_number
  statuses,           \* the HTTP statuses received for the work item in hand
  waits,              \* the seconds slept before each retry for that work item
  outcome,            \* per work item, what became of its query
  since_sent,         \* ticks since the last outbound request (saturating)
  gap,                \* ticks between the last two outbound requests (saturating)
  final_merged,       \* the file {assay}_validator_all_merged.csv
  \* ---- compare_validator_vcf.py
  mismatches_tsv,     \* args.mismatches_tsv: the file any_mismatches.tsv
  vv_batch_file,      \* args.variant_validator: the VariantValidator batch output
  rc_mismatches_df,   \* read_file: mismatches_df
  vv_batch_df,        \* read_file: vv_batch_df
  parsed_vv_batch,    \* parse_validator_batch
  validator_merged,   \* merge_mismatches_batch, as it was returned
  merged_df,          \* the merged frame as the later steps change it
  mismatch_counts,    \* find_vep_validator_mismatches: mismatch_df
  change_counts,      \* find_new_changes: between_version_counts
  merged_tsv,         \* main: the file merged_validator_mismatches.tsv
  detail_files,       \* find_new_changes: the four detail files
  \* ---- format_results, called on its own
  response,           \* the decoded JSON body given to format_results
  formatted,          \* the list format_results returned
  \* ---- several workers calling fetch_endpoint in one process
  wpc,                \* per worker, where it is in fetch_endpoint
  wtimer,             \* per worker, ticks until its sleep or its request ends
  wattempt,           \* per worker, tenacity's attempt_number
  witems,             \* per worker, the work items of its chunk still to query
  runs,               \* the invocations of query_validator_api.py so far
  pc,                 \* position in the running script
  error               \* the exception that ended the script, or "none"

cmpVars == <<vep_old, vep_new, annotations_old, annotations_new, all_dfs, sample,
             any_mismatches, any_mismatches_tsv, unique_variants, unique_transcripts>>
inVars == <<input_file, mismatches_df, records>>
loopVars == <<chunk_size, chunked, files, existing, csv_files, index, row, all_results,
              final_merged>>
netVars == <<elapsed, num_calls, attempt, statuses, waits, outcome, since_sent, gap>>
qryVars == <<inVars, loopVars, netVars>>
rcVars == <<mismatches_tsv, vv_batch_file, rc_mismatches_df, vv_batch_df, parsed_vv_batch,
            validator_merged, merged_df, merged_tsv, mismatch_counts, change_counts,
            detail_files>>
fmtVars == <<response, formatted>>
wrkVars == <<wpc, wtimer, wattempt, witems>>
vars == <<cmpVars, qryVars, rcVars, fmtVars, wrkVars, runs, pc, error>>

(***************************************************************************)
(* Strings                                                                 *)
(***************************************************************************)
NaN == <<"NaN">>

IsNaN(x) == x = NaN

\* pandas elementwise != on object columns: NaN compares unequal to everything,
\* itself included.
Ne(a, b) == IsNaN(a) \/ IsNaN(b) \/ a # b

\* str.startswith / str.endswith
StartsWith(s, p) == Len(s) >= Len(p) /\ SubSeq(s, 1, Len(p)) = p

EndsWith(s, p) == Len(s) >= Len(p) /\ SubSeq(s, Len(s) - Len(p) + 1, Len(s)) = p

\* The characters the model's strings use, in ASCII order.
Alphabet == <<"%", "(", ")", "-", ".", "0", "1", "2", "3", "4", "5", "6", "7", "8", "9",
              ":", "=", ">", "?", "A", "C", "D", "G", "K", "M", "N", "P", "R", "T", "X",
              "_", "c", "i", "m", "n", "p", "s", "y", "|">>

Code(c) == CHOOSE i \in 1..Len(Alphabet) : Alphabet[i] = c

\* Python's str < str (lexicographic by code point)
RECURSIVE StrLess(_, _)
StrLess(a, b) ==
  IF b = <<>> THEN FALSE
  ELSE IF a = <<>> THEN TRUE
  ELSE IF Head(a) = Head(b) THEN StrLess(Tail(a), Tail(b))
  ELSE Code(Head(a)) < Code(Head(b))

Digits == <<"0", "1", "2", "3", "4", "5", "6", "7", "8", "9">>

\* str(int) for a non-negative integer
RECURSIVE IntToStr(_)
IntToStr(n) ==
  IF n < 10 THEN <<Digits[n + 1]>>
  ELSE IntToStr(n \div 10) \o <<Digits[(n % 10) + 1]>>

IsDigit(c) == \E i \in 1..10 : Digits[i] = c

DigitVal(c) == (CHOOSE i \in 1..10 : Digits[i] = c) - 1

\* int(str) for a string of decimal digits
RECURSIVE StrToInt(_)
StrToInt(s) ==
  IF Len(s) = 1 THEN DigitVal(s[1])
  ELSE 10 * StrToInt(SubSeq(s, 1, Len(s) - 1)) + DigitVal(s[Len(s)])

\* sep.join(parts)
RECURSIVE Join(_, _)
Join(sep, parts) ==
  IF parts = <<>> THEN <<>>
  ELSE IF Len(parts) = 1 THEN parts[1]
  ELSE parts[1] \o sep \o Join(sep, Tail(parts))

\* s.split(sep) for a one-character separator
RECURSIVE Split(_, _)
Split(s, sep) ==
  IF \A i \in 1..Len(s) : s[i] # sep THEN <<s>>
  ELSE LET i == CHOOSE j \in 1..Len(s) : s[j] = sep /\ \A k \in 1..(j - 1) : s[k] # sep
       IN <<SubSeq(s, 1, i - 1)>> \o Split(SubSeq(s, i + 1, Len(s)), sep)

\* flatten a list of tables (pd.concat)
RECURSIVE Concat(_)
Concat(tables) ==
  IF tables = <<>> THEN <<>> ELSE Head(tables) \o Concat(Tail(tables))

Range(s) == {s[i] : i \in 1..Len(s)}

(***************************************************************************)
(* Input domain of compare_vcf_hgvs.py                                     *)
(***************************************************************************)
NM_1 == <<"N", "M", "_", "1">>
NM_2 == <<"N", "M", "_", "2">>
NR_1 == <<"N", "R", "_", "1">>
NR_prefix == <<"N", "R", "_">>

V1 == [CHROM |-> <<"1">>, POS |-> 100, REF |-> <<"A">>, ALT |-> <<"G">>]
V2 == [CHROM |-> <<"X">>, POS |-> 25, REF |-> <<"C">>, ALT |-> <<"T">>]
Variants == {V1, V2}

Key(v, f) == [CHROM |-> v.CHROM, POS |-> v.POS, REF |-> v.REF, ALT |-> v.ALT, Feature |-> f]

\* The (variant, transcript) pairs of the input files, in file order.
KeySeq == <<Key(V1, NM_1), Key(V1, NM_2), Key(V2, NM_1), Key(V2, NR_1)>>
Keys == Range(KeySeq)

VariantOf(r) == [CHROM |-> r.CHROM, POS |-> r.POS, REF |-> r.REF, ALT |-> r.ALT]

KeyOf(r) == [CHROM |-> r.CHROM, POS |-> r.POS, REF |-> r.REF, ALT |-> r.ALT,
             Feature |-> r.Feature]

Mis == <<"m", "i", "s">>
Syn == <<"s", "y", "n">>
HcOf(f) == f \o <<":", "c", ".", "1", "A", ">", "G">>
HcAlt(f) == f \o <<":", "c", ".", "2", "A", ">", "G">>
Hp1 == <<"N", "P", "_", "1", ":", "p", ".", "K", "1", "R">>

\* The annotations a VEP version can give a key: Consequence, HGVSc, HGVSp.
\* An empty field of the input file is read as NaN.
Annot(id, f) ==
  CASE id = "A0" -> [Consequence |-> Mis, HGVSc |-> HcOf(f), HGVSp |-> NaN]
    [] id = "A1" -> [Consequence |-> Syn, HGVSc |-> HcOf(f), HGVSp |-> NaN]
    [] id = "A2" -> [Consequence |-> Mis, HGVSc |-> HcOf(f), HGVSp |-> Hp1]
    [] id = "A3" -> [Consequence |-> Syn, HGVSc |-> HcOf(f), HGVSp |-> Hp1]
    [] id = "A4" -> [Consequence |-> Mis, HGVSc |-> HcAlt(f), HGVSp |-> Hp1]

\* (old, new) annotation of one key: in one file only, in neither, identical,
\* identical with an empty field, differing in one field (Consequence, HGVSp
\* or HGVSc alone), differing in two.
PairCases == {<<"absent", "absent">>, <<"absent", "A2">>, <<"A2", "absent">>,
              <<"A2", "A2">>, <<"A0", "A0">>, <<"A2", "A3">>, <<"A0", "A2">>,
              <<"A1", "A2">>, <<"A2", "A4">>}

\* The variants a sample carries.
SampleSets == {{V1}, {V2}, {V1, V2}}

MaxSamples == 2

AnnotationRow(k, a) ==
  [CHROM |-> k.CHROM, POS |-> k.POS, REF |-> k.REF, ALT |-> k.ALT,
   Consequence |-> a.Consequence, Feature |-> k.Feature, HGVSc |-> a.HGVSc,
   HGVSp |-> a.HGVSp]

\* read_file: the rows of one VEP version for the variants of one sample
RECURSIVE TableOf(_, _, _)
TableOf(vep, S, i) ==
  IF i > Len(KeySeq) THEN <<>>
  ELSE LET k == KeySeq[i]
       IN (IF VariantOf(k) \in S /\ vep[k] # "absent"
           THEN <<AnnotationRow(k, Annot(vep[k], k.Feature))>>
           ELSE <<>>) \o TableOf(vep, S, i + 1)

read_file(vep, S) == TableOf(vep, S, 1)

(***************************************************************************)
(* compare_vcf_hgvs.py                                                     *)
(***************************************************************************)
MergedRow(o, n) ==
  [CHROM |-> o.CHROM, POS |-> o.POS, REF |-> o.REF, ALT |-> o.ALT,
   Consequence_old |-> o.Consequence, Feature |-> o.Feature,
   HGVSc_old |-> o.HGVSc, HGVSp_old |-> o.HGVSp,
   Consequence_new |-> n.Consequence, HGVSc_new |-> n.HGVSc, HGVSp_new |-> n.HGVSp]

\* the rows of `right` whose key equals that of the left row o, merged with o
MatchesOf(o, right) ==
  LET hits == SelectSeq(right, LAMBDA n : KeyOf(n) = KeyOf(o))
  IN [i \in 1..Len(hits) |-> MergedRow(o, hits[i])]

\* pd.merge(old, new, on=[CHROM, POS, REF, ALT, Feature], how='inner'):
\* the order of the left keys is kept
RECURSIVE InnerMerge(_, _)
InnerMerge(left, right) ==
  IF left = <<>> THEN <<>>
  ELSE MatchesOf(Head(left), right) \o InnerMerge(Tail(left), right)

AnyFieldDiffers(r) ==
  \/ Ne(r.Consequence_old, r.Consequence_new)
  \/ Ne(r.HGVSc_old, r.HGVSc_new)
  \/ Ne(r.HGVSp_old, r.HGVSp_new)

\* mutant: the Consequence columns are not compared
find_mismatches_no_consequence(old, new) ==
  LET merged == InnerMerge(old, new)
      any == SelectSeq(merged, LAMBDA r : Ne(r.HGVSc_old, r.HGVSc_new)
                                           \/ Ne(r.HGVSp_old, r.HGVSp_new))
  IN SelectSeq(any, LAMBDA r : ~StartsWith(r.Feature, NR_prefix))

\* mutant: the NR_ transcripts are kept
find_mismatches_keep_nr(old, new) ==
  SelectSeq(InnerMerge(old, new), AnyFieldDiffers)

find_mismatches(old, new) ==
  LET merged == InnerMerge(old, new)
      any_mismatches_ == SelectSeq(merged, AnyFieldDiffers)
  IN SelectSeq(any_mismatches_, LAMBDA r : ~StartsWith(r.Feature, NR_prefix))

\* mutant: every row is kept
drop_duplicates_none(table) == table

\* DataFrame.drop_duplicates(): the first of equal rows is kept (NaN equals NaN)
RECURSIVE drop_duplicates(_)
drop_duplicates(table) ==
  IF table = <<>> THEN <<>>
  ELSE LET front == drop_duplicates(SubSeq(table, 1, Len(table) - 1))
           last == table[Len(table)]
       IN IF last \in Range(front) THEN front ELSE Append(front, last)

\* a cell as to_csv writes it: NaN as the empty field, an integer in decimal
CsvCell(x) == IF IsNaN(x) THEN <<>> ELSE x

\* a text cell as read_csv reads it: the empty field is NaN
ReadCell(x) == IF x = <<>> THEN NaN ELSE x

\* all_dfs.to_csv('any_mismatches.tsv', sep='\t', header=True, index=False)
to_csv(table) ==
  [i \in 1..Len(table) |->
     LET r == table[i]
     IN [CHROM |-> CsvCell(r.CHROM), POS |-> IntToStr(r.POS), REF |-> CsvCell(r.REF),
         ALT |-> CsvCell(r.ALT), Consequence_old |-> CsvCell(r.Consequence_old),
         Feature |-> CsvCell(r.Feature), HGVSc_old |-> CsvCell(r.HGVSc_old),
         HGVSp_old |-> CsvCell(r.HGVSp_old),
         Consequence_new |-> CsvCell(r.Consequence_new),
         HGVSc_new |-> CsvCell(r.HGVSc_new), HGVSp_new |-> CsvCell(r.HGVSp_new)]]

\* main, lines 207-208: the next sample pair is read
ReadFile ==
  /\ pc = "cmp_loop"
  /\ sample < MaxSamples
  /\ \E S \in SampleSets :
       /\ annotations_old' = read_file(vep_old, S)
       /\ annotations_new' = read_file(vep_new, S)
  /\ pc' = "cmp_find"
  /\ UNCHANGED <<vep_old, vep_new, all_dfs, sample, any_mismatches, any_mismatches_tsv,
                 unique_variants, unique_transcripts, qryVars, rcVars, fmtVars, wrkVars, runs, error>>

\* main, line 209
FindMismatches ==
  /\ pc = "cmp_find"
  /\ all_dfs' = Append(all_dfs, find_mismatches(annotations_old, annotations_new))
  /\ sample' = sample + 1
  /\ pc' = "cmp_loop"
  /\ UNCHANGED <<vep_old, vep_new, annotations_old, annotations_new, any_mismatches,
                 any_mismatches_tsv, unique_variants, unique_transcripts, qryVars, rcVars, fmtVars, wrkVars, runs, error>>

\* main, lines 211-213: the loop is over, after as many pairs as the
\* directory holds; pd.concat of an empty list (no pair) raises ValueError
ConcatDropDuplicates ==
  /\ pc = "cmp_loop"
  /\ IF all_dfs = <<>>
     THEN /\ pc' = "raised"
          /\ error' = "ValueError"
          /\ UNCHANGED <<any_mismatches, any_mismatches_tsv>>
     ELSE /\ any_mismatches' = drop_duplicates(Concat(all_dfs))
          /\ any_mismatches_tsv' = to_csv(any_mismatches')
          /\ pc' = "cmp_inputs"
          /\ UNCHANGED error
  /\ UNCHANGED <<vep_old, vep_new, annotations_old, annotations_new, all_dfs, sample,
                 unique_variants, unique_transcripts, qryVars, rcVars, fmtVars, wrkVars, runs>>

\* chr_pos_ref_alt.drop_duplicates(), written with sep "-"
UniqVars(table) ==
  LET vs == drop_duplicates([i \in 1..Len(table) |-> VariantOf(table[i])])
  IN [i \in 1..Len(vs) |->
        Join(<<"-">>, <<vs[i].CHROM, IntToStr(vs[i].POS), vs[i].REF, vs[i].ALT>>)]

UniqTranscripts(table) ==
  drop_duplicates([i \in 1..Len(table) |-> table[i].Feature])

\* create_variantvalidator_inputs; to_csv_chunks splits into 0 files when the
\* table is empty, and np.array_split(df, 0) raises ValueError
CreateVariantValidatorInputs ==
  /\ pc = "cmp_inputs"
  /\ IF any_mismatches = <<>>
     THEN /\ pc' = "raised"
          /\ error' = "ValueError"
          /\ UNCHANGED <<unique_variants, unique_transcripts>>
     ELSE /\ unique_variants' = UniqVars(any_mismatches)
          /\ unique_transcripts' = UniqTranscripts(any_mismatches)
          /\ pc' = "cmp_done"
          /\ UNCHANGED error
  /\ UNCHANGED <<vep_old, vep_new, annotations_old, annotations_new, all_dfs, sample,
                 any_mismatches, any_mismatches_tsv, qryVars, rcVars, fmtVars, wrkVars, runs>>

(***************************************************************************)
(* query_validator_api.py                                                  *)
(***************************************************************************)
\* the script is run on the file compare_vcf_hgvs.py wrote (-i any_mismatches.tsv)
InvokeQuery ==
  /\ pc = "cmp_done"
  /\ input_file' = any_mismatches_tsv
  /\ pc' = "qry_read"
  /\ UNCHANGED <<cmpVars, rcVars, fmtVars, wrkVars, runs, mismatches_df, records, loopVars, netVars, error>>

\* the columns of a file that has rows (its header line)
Header(file) == DOMAIN file[1]

\* lines 85-89: the columns the variant description is made of
VariantColumns == <<"CHROM", "POS", "REF", "ALT">>

\* mutant: a column the file does not have is read as empty
read_in_mismatches_lenient(file) ==
  [raised |-> FALSE,
   df |-> [i \in 1..Len(file) |->
             LET r == file[i]
                 Cell(f) == IF f \in DOMAIN r THEN ReadCell(r[f]) ELSE NaN
                 pos == IF "POS" \in DOMAIN r THEN StrToInt(r.POS) ELSE 0
             IN [f \in DOMAIN r \cup {"POS"} |-> IF f = "POS" THEN pos ELSE Cell(f)]
                @@ [variant_description |->
                      Join(<<"-">>, <<Cell("CHROM"), IntToStr(pos), Cell("REF"),
                                      Cell("ALT")>>)]]]

\* read_in_mismatches: pd.read_csv, then the variant description
\* CHROM-POS-REF-ALT joined with "-" after astype(str); selecting a column
\* the file does not have raises KeyError
read_in_mismatches(file) ==
  IF \E i \in 1..Len(VariantColumns) : VariantColumns[i] \notin Header(file)
  THEN [raised |-> TRUE, df |-> <<>>]
  ELSE [raised |-> FALSE,
        df |-> [i \in 1..Len(file) |->
                  LET r == file[i]
                      cells == [f \in DOMAIN r |->
                                  IF f = "POS" THEN StrToInt(r[f]) ELSE ReadCell(r[f])]
                  IN cells @@ [variant_description |->
                                 Join(<<"-">>, <<cells.CHROM, IntToStr(cells.POS),
                                                 cells.REF, cells.ALT>>)]]]

\* main, line 349
ReadInMismatches ==
  /\ pc = "qry_read"
  /\ LET out == read_in_mismatches(input_file)
     IN IF out.raised
        THEN pc' = "raised" /\ error' = "KeyError" /\ UNCHANGED mismatches_df
        ELSE mismatches_df' = out.df /\ pc' = "qry_group" /\ UNCHANGED error
  /\ UNCHANGED <<cmpVars, rcVars, fmtVars, wrkVars, runs, input_file, records, loopVars, netVars>>

\* the distinct values of a column, sorted (groupby sorts the group keys)
RECURSIVE SortedStrings(_)
SortedStrings(S) ==
  IF S = {} THEN <<>>
  ELSE LET m == CHOOSE x \in S : \A y \in S \ {x} : StrLess(x, y)
       IN <<m>> \o SortedStrings(S \ {m})

\* get_df_unique_variants_and_their_transcripts:
\* groupby(variant_description).agg(Feature: "|".join)
get_df_unique_variants_and_their_transcripts(df) ==
  LET descs == SortedStrings({df[i].variant_description : i \in 1..Len(df)})
  IN [g \in 1..Len(descs) |->
        LET rows == SelectSeq(df, LAMBDA r : r.variant_description = descs[g])
        IN [variant_description |-> descs[g],
            Feature |-> Join(<<"|">>, [i \in 1..Len(rows) |-> rows[i].Feature])]]

\* line 164: aggregating a column the frame does not have raises KeyError
GroupRaises(df) == "Feature" \notin Header(df)

\* main, lines 350-351
GetUniqueVariants ==
  /\ pc = "qry_group"
  /\ IF GroupRaises(mismatches_df)
     THEN pc' = "raised" /\ error' = "KeyError" /\ UNCHANGED records
     ELSE /\ records' = get_df_unique_variants_and_their_transcripts(mismatches_df)
          /\ pc' = "qry_chunk"
          /\ UNCHANGED error
  /\ UNCHANGED <<cmpVars, rcVars, fmtVars, wrkVars, runs, input_file, mismatches_df, loopVars, netVars>>

\* ---- the clock, the limiter and the retry policy
TicksPerSec == 2
MaxLatency == 2
MaxChunkSize == 2

\* @limits(calls=1, period=1)
LimitCalls == 1
LimitPeriod == 1
\* stop=stop_after_attempt(5)
StopAfterAttempt == 5
\* wait=wait_exponential(multiplier=1, min=1, max=10)
WaitMultiplier == 1
WaitMin == 1
WaitMax == 10

Min(a, b) == IF a <= b THEN a ELSE b
Max(a, b) == IF a >= b THEN a ELSE b

\* Only differences of clock readings enter the code: the model keeps the time
\* since the limiter's window began and since the last request, and stops
\* counting once the window (resp. one second) is over.
PeriodTicks == LimitPeriod * TicksPerSec

\* d ticks pass
Passes(d) ==
  /\ elapsed' = Min(elapsed + d, PeriodTicks)
  /\ since_sent' = Min(since_sent + d, TicksPerSec)

\* ---- JSON values of a response
JNull == [t |-> "null"]
JStr(s) == [t |-> "str", s |-> s]
JDict(items) == [t |-> "dict", items |-> items]

IsDict(j) == j.t = "dict"

HasKey(d, k) == \E i \in 1..Len(d.items) : d.items[i].k = k

\* dict.get(key, default)
Get(d, k, default) ==
  IF HasKey(d, k) THEN d.items[CHOOSE i \in 1..Len(d.items) : d.items[i].k = k].v
  ELSE default

\* a JSON string or null as the cell of a DataFrame
CellOf(j) == IF j.t = "str" THEN j.s ELSE NaN

Metadata == <<"m", "e", "t", "a", "d", "a", "t", "a">>
Hgvs_t_and_p == <<"h", "g", "v", "s", "_", "t", "_", "a", "n", "d", "_", "p">>
T_hgvs == <<"t", "_", "h", "g", "v", "s">>
P_hgvs_tlc == <<"p", "_", "h", "g", "v", "s", "_", "t", "l", "c">>

VvHp1 == <<"N", "P", "_", "1", ":", "p", ".", "(", "K", "1", "R", ")">>

\* what the oracle says of one transcript
OracleHgvs(tx) ==
  JDict(<<[k |-> T_hgvs, v |-> JStr(HcOf(tx))], [k |-> P_hgvs_tlc, v |-> JStr(VvHp1)]>>)

\* a well-formed answer: {desc: {desc: {hgvs_t_and_p: {tx: {...}}}}, metadata: {}}
BodyOk(desc, txs) ==
  JDict(<<[k |-> desc,
           v |-> JDict(<<[k |-> desc,
                          v |-> JDict(<<[k |-> Hgvs_t_and_p,
                                         v |-> JDict([i \in 1..Len(txs) |->
                                                 [k |-> txs[i], v |-> OracleHgvs(txs[i])]])]>>)]>>)],
          [k |-> Metadata, v |-> JDict(<<>>)]>>)

\* an answer whose hgvs_t_and_p is null
BodyNullHgvs(desc) ==
  JDict(<<[k |-> desc,
           v |-> JDict(<<[k |-> desc,
                          v |-> JDict(<<[k |-> Hgvs_t_and_p, v |-> JNull]>>)]>>)],
          [k |-> Metadata, v |-> JDict(<<>>)]>>)

\* a transcript the model never asks the oracle for
NM_3 == <<"N", "M", "_", "3">>

\* the bodies a 200 response to the query of a work item can carry: the
\* transcripts asked for, these and one more, nothing, a null hgvs_t_and_p
Bodies(item) ==
  {BodyOk(item.variant_description, Split(item.Feature, "|")),
   BodyOk(item.variant_description, Append(Split(item.Feature, "|"), NM_3)),
   JDict(<<>>),
   BodyNullHgvs(item.variant_description)}

\* the statuses the oracle answers with
Statuses == {200, 404, 429, 500}

\* ---- format_results
InnerOf(variant, info) == Get(info, variant, JDict(<<>>))

HgvsInfoOf(variant, info) == Get(InnerOf(variant, info), Hgvs_t_and_p, JDict(<<>>))

\* .get or .items is called on a value that is not a dict: AttributeError
EntryRaises(variant, info) ==
  \/ ~IsDict(info)
  \/ ~IsDict(InnerOf(variant, info))
  \/ ~IsDict(HgvsInfoOf(variant, info))
  \/ \E i \in 1..Len(HgvsInfoOf(variant, info).items) :
       ~IsDict(HgvsInfoOf(variant, info).items[i].v)

EntryResults(variant, info) ==
  LET hgvs_info == HgvsInfoOf(variant, info).items
  IN [i \in 1..Len(hgvs_info) |->
        [variant |-> variant, Feature |-> hgvs_info[i].k,
         HGVSc_validator |-> CellOf(Get(hgvs_info[i].v, T_hgvs, JNull)),
         HGVSp_validator |-> CellOf(Get(hgvs_info[i].v, P_hgvs_tlc, JNull))]]

\* mutant: the key metadata is read like a variant
format_results_all_keys(resp) ==
  IF \E i \in 1..Len(resp.items) : EntryRaises(resp.items[i].k, resp.items[i].v)
  THEN [raised |-> TRUE, results |-> <<>>]
  ELSE [raised |-> FALSE,
        results |-> Concat([i \in 1..Len(resp.items) |->
                              EntryResults(resp.items[i].k, resp.items[i].v)])]

format_results(resp) ==
  LET entries == SelectSeq(resp.items, LAMBDA e : e.k # Metadata)
  IN IF \E i \in 1..Len(entries) : EntryRaises(entries[i].k, entries[i].v)
     THEN [raised |-> TRUE, results |-> <<>>]
     ELSE [raised |-> FALSE,
           results |-> Concat([i \in 1..Len(entries) |->
                                 EntryResults(entries[i].k, entries[i].v)])]

\* format_results called on a decoded body
FormatResults ==
  /\ pc = "fmt_call"
  /\ LET out == format_results(response)
     IN IF out.raised
        THEN pc' = "raised" /\ error' = "AttributeError" /\ UNCHANGED formatted
        ELSE formatted' = out.results /\ pc' = "fmt_done" /\ UNCHANGED error
  /\ UNCHANGED <<cmpVars, qryVars, rcVars, wrkVars, runs, response>>

\* ---- chunks
\* mutant: only the groups of n items are yielded
chunks_full_only(list_to_chunk, n) ==
  [i \in 1..(Len(list_to_chunk) \div n) |->
     SubSeq(list_to_chunk, (i - 1) * n + 1, i * n)]

\* lines 262-263: for i in range(0, len, n): yield list_to_chunk[i : i + n]
chunks(list_to_chunk, n) ==
  [i \in 1..((Len(list_to_chunk) + n - 1) \div n) |->
     SubSeq(list_to_chunk, (i - 1) * n + 1, Min(i * n, Len(list_to_chunk)))]

NoFile == [exists |-> FALSE, rows |-> <<>>]

FileOf(rows) == [exists |-> TRUE, rows |-> rows]

\* main, lines 349-352: the work items are chunked; the time since the limiter
\* was constructed (at import) is whatever loading the input took
Chunks ==
  /\ pc = "qry_chunk"
  /\ chunked' = chunks(records, chunk_size)
  /\ index' = 1
  /\ outcome' = [g \in 1..Len(records) |-> "pending"]
  /\ \E d \in 0..MaxLatency : Passes(d)
  /\ pc' = "qry_loop"
  /\ UNCHANGED <<cmpVars, rcVars, fmtVars, wrkVars, runs, inVars, chunk_size, files, existing, csv_files, row, all_results,
                 final_merged, num_calls, attempt, statuses, waits, gap, error>>

\* mutant: the chunk file is not looked for
ChunkFileExists_never(c) == FALSE

\* mutant: any chunk file in output_dir counts
ChunkFileExists_any(c) == \E d \in DOMAIN files : files[d].exists

\* os.path.exists(filename)
ChunkFileExists(c) == files[c].exists

\* query_chunks_and_output, lines 281-284: the next chunk, skipped when its
\* file exists
NextChunk ==
  /\ pc = "qry_loop"
  /\ IF index > Len(chunked)
     THEN pc' = "qry_gather" /\ UNCHANGED <<index, row, all_results>>
     ELSE IF ChunkFileExists(index)
     THEN index' = index + 1 /\ pc' = "qry_loop" /\ UNCHANGED <<row, all_results>>
     ELSE all_results' = <<>> /\ row' = 1 /\ pc' = "qry_row" /\ UNCHANGED index
  /\ UNCHANGED <<cmpVars, rcVars, fmtVars, wrkVars, runs, inVars, chunk_size, chunked, files, existing, csv_files,
                 final_merged, netVars, error>>

\* the work item being queried, and its position in records
CurItem == chunked[index][row]

Cur == (index - 1) * chunk_size + row

\* lines 285-293: query_variant_with_lovd calls fetch_endpoint
QueryVariant ==
  /\ pc = "qry_row"
  /\ row <= Len(chunked[index])
  /\ statuses' = <<>>
  /\ waits' = <<>>
  /\ pc' = "limit"
  /\ UNCHANGED <<cmpVars, rcVars, fmtVars, wrkVars, runs, inVars, loopVars, elapsed, num_calls, attempt, outcome,
                 since_sent, gap, error>>

\* lines 297-302: the chunk is done and its file is written
WriteChunk ==
  /\ pc = "qry_row"
  /\ row > Len(chunked[index])
  /\ files' = [files EXCEPT ![index] = FileOf(all_results)]
  /\ index' = index + 1
  /\ statuses' = <<>>
  /\ waits' = <<>>
  /\ pc' = "qry_loop"
  /\ UNCHANGED <<cmpVars, rcVars, fmtVars, wrkVars, runs, inVars, chunk_size, chunked, existing, csv_files, row,
                 all_results, final_merged, elapsed, num_calls, attempt, outcome,
                 since_sent, gap, error>>

\* ---- fetch_endpoint
\* ratelimit: period - (clock() - last_reset)
PeriodRemaining == PeriodTicks - elapsed

\* @sleep_and_retry @limits(calls=1, period=1): a call in an elapsed window
\* resets the window; a call beyond the limit sleeps for the rest of the
\* window and asks again
RateLimit ==
  /\ pc = "limit"
  /\ LET reset == PeriodRemaining <= 0
         counted == (IF reset THEN 0 ELSE num_calls) + 1
     IN /\ num_calls' = counted
        /\ IF counted > LimitCalls
           THEN \* RateLimitException: time.sleep(period_remaining), call again
                /\ Passes(PeriodRemaining)
                /\ pc' = "limit"
                /\ UNCHANGED attempt
           ELSE \* last_reset = clock() when the window was over
                /\ elapsed' = (IF reset THEN 0 ELSE elapsed)
                /\ attempt' = 1
                /\ pc' = "attempt"
                /\ UNCHANGED since_sent
  /\ UNCHANGED <<cmpVars, rcVars, fmtVars, wrkVars, runs, inVars, loopVars, statuses, waits, outcome, gap, error>>

\* mutant: the 500 is not told apart from the other errors
Raises_on_500_too(status) == status >= 400

\* lines 127-139: the statuses on which the body of fetch_endpoint raises
\* (429: Exception; not ok and not 500: raise_for_status)
Raises(status) == status = 429 \/ (status # 500 /\ status >= 400)

\* line 133: the status that is skipped
Skips(status) == status = 500

\* stop_after_attempt(5)
ShouldStop(n) == n >= StopAfterAttempt

\* one requests.get and what fetch_endpoint and the loop do with the answer
Attempt ==
  /\ pc = "attempt"
  /\ \E status \in Statuses, latency \in 1..MaxLatency :
       \E body \in (IF status = 200 THEN Bodies(CurItem) ELSE {JNull}) :
         /\ gap' = since_sent
         /\ elapsed' = Min(elapsed + latency, PeriodTicks)
         /\ since_sent' = Min(latency, TicksPerSec)
         /\ statuses' = Append(statuses, status)
         /\ IF Raises(status)
            THEN \* tenacity retries on any exception, until stop_after_attempt
                 /\ IF ShouldStop(attempt)
                    THEN /\ pc' = "raised"
                         /\ error' = "RetryError"
                         /\ outcome' = [outcome EXCEPT ![Cur] = "failed"]
                    ELSE /\ pc' = "backoff"
                         /\ outcome' = [outcome EXCEPT ![Cur] = "retrying"]
                         /\ UNCHANGED error
                 /\ UNCHANGED <<row, all_results>>
            ELSE IF Skips(status)
            THEN \* None is returned: "if results" is false
                 /\ row' = row + 1
                 /\ pc' = "qry_row"
                 /\ outcome' = [outcome EXCEPT ![Cur] = "skipped"]
                 /\ UNCHANGED <<all_results, error>>
            ELSE IF body.items = <<>>
            THEN \* an empty dict: "if results" is false
                 /\ row' = row + 1
                 /\ pc' = "qry_row"
                 /\ outcome' = [outcome EXCEPT ![Cur] = "empty"]
                 /\ UNCHANGED <<all_results, error>>
            ELSE LET out == format_results(body)
                 IN IF out.raised
                    THEN /\ pc' = "raised"
                         /\ error' = "AttributeError"
                         /\ outcome' = [outcome EXCEPT ![Cur] = "malformed"]
                         /\ UNCHANGED <<row, all_results>>
                    ELSE /\ all_results' = all_results \o out.results
                         /\ row' = row + 1
                         /\ pc' = "qry_row"
                         /\ outcome' = [outcome EXCEPT ![Cur] = "answered"]
                         /\ UNCHANGED error
  /\ UNCHANGED <<cmpVars, rcVars, fmtVars, wrkVars, runs, inVars, chunk_size, chunked, files, existing, csv_files, index,
                 final_merged, num_calls, attempt, waits>>

RECURSIVE Pow2(_)
Pow2(n) == IF n = 0 THEN 1 ELSE 2 * Pow2(n - 1)

\* mutant: the exponent is the attempt number
WaitExponential_from_attempt(n) == Max(WaitMin, Min(WaitMultiplier * Pow2(n), WaitMax))

\* wait_exponential(multiplier=1, min=1, max=10), in seconds, after attempt n
WaitExponential(n) == Max(WaitMin, Min(WaitMultiplier * Pow2(n - 1), WaitMax))

\* tenacity sleeps before the next attempt
Backoff ==
  /\ pc = "backoff"
  /\ Passes(WaitExponential(attempt) * TicksPerSec)
  /\ waits' = Append(waits, WaitExponential(attempt))
  /\ attempt' = attempt + 1
  /\ pc' = "attempt"
  /\ UNCHANGED <<cmpVars, rcVars, fmtVars, wrkVars, runs, inVars, loopVars, num_calls, statuses, outcome, gap, error>>

\* ---- gather_vv_files_and_merge_with_vep_mismatches
NoOracle == [variant |-> NaN, HGVSc_validator |-> NaN, HGVSp_validator |-> NaN]

OracleCols(r) ==
  [variant |-> r.variant, HGVSc_validator |-> r.HGVSc_validator,
   HGVSp_validator |-> r.HGVSp_validator]

\* pd.merge(left, right, left_on=[variant_description, Feature],
\*          right_on=[variant, Feature], how="left")
RECURSIVE LeftMerge(_, _)
LeftMerge(left, right) ==
  IF left = <<>> THEN <<>>
  ELSE LET l == Head(left)
           hits == SelectSeq(right, LAMBDA r : r.variant = l.variant_description
                                                /\ r.Feature = l.Feature)
       IN (IF hits = <<>> THEN <<l @@ NoOracle>>
           ELSE [i \in 1..Len(hits) |-> l @@ OracleCols(hits[i])])
          \o LeftMerge(Tail(left), right)

\* lines 320-344: the files validator*.csv of output_dir are read and
\* concatenated (pd.concat of no frame raises ValueError), then merged
Gather ==
  /\ pc = "qry_gather"
  /\ IF csv_files = <<>>
     THEN pc' = "raised" /\ error' = "ValueError" /\ UNCHANGED final_merged
     ELSE /\ final_merged' = FileOf(LeftMerge(mismatches_df, Concat(csv_files)))
          /\ pc' = "qry_done"
          /\ UNCHANGED error
  /\ UNCHANGED <<cmpVars, rcVars, fmtVars, wrkVars, runs, inVars, chunk_size, chunked, files, existing, csv_files, index,
                 row, all_results, netVars>>

(***************************************************************************)
(* compare_validator_vcf.py (run with -old old -new new)                   *)
(***************************************************************************)
\* protein values of the VariantValidator batch output
VvUnknown == <<"N", "P", "_", "1", ":", "p", ".", "?">>
VvSilent == <<"N", "P", "_", "1", ":", "p", ".", "(", "K", "1", "=", ")">>

\* the dtype pd.read_csv infers for the CHROM column of a file
ChromDtype(file) ==
  IF file # <<>> /\ \A i \in 1..Len(file) :
                      /\ file[i].CHROM # <<>>
                      /\ \A j \in 1..Len(file[i].CHROM) : IsDigit(file[i].CHROM[j])
  THEN "int64" ELSE "object"

\* read_file, lines 9-12: the mismatches file as a frame
rc_read_mismatches(file) ==
  [i \in 1..Len(file) |->
     LET r == file[i]
     IN [CHROM |-> ReadCell(r.CHROM), POS |-> StrToInt(r.POS), REF |-> ReadCell(r.REF),
         ALT |-> ReadCell(r.ALT), Consequence_old |-> ReadCell(r.Consequence_old),
         Feature |-> ReadCell(r.Feature), HGVSc_old |-> ReadCell(r.HGVSc_old),
         HGVSp_old |-> ReadCell(r.HGVSp_old),
         Consequence_new |-> ReadCell(r.Consequence_new),
         HGVSc_new |-> ReadCell(r.HGVSc_new), HGVSp_new |-> ReadCell(r.HGVSp_new)]]

\* read_file, lines 14-20: the three columns of the batch output, renamed
rc_read_batch(file) ==
  [i \in 1..Len(file) |->
     [Variant |-> ReadCell(file[i].Input),
      HGVSc_validator |-> ReadCell(file[i].HGVS_transcript),
      HGVSp_validator |-> ReadCell(file[i].HGVS_Predicted_Protein)]]

\* main, line 171
RcReadFile ==
  /\ pc = "rc_read"
  /\ rc_mismatches_df' = rc_read_mismatches(mismatches_tsv)
  /\ vv_batch_df' = rc_read_batch(vv_batch_file)
  /\ pc' = "rc_parse"
  /\ UNCHANGED <<cmpVars, qryVars, fmtVars, wrkVars, runs, mismatches_tsv, vv_batch_file, parsed_vv_batch,
                 validator_merged, merged_df, merged_tsv, mismatch_counts,
                 change_counts, detail_files, error>>

\* str.split(':').str[0]
FeatureOf(hgvsc) == IF IsNaN(hgvsc) THEN NaN ELSE Split(hgvsc, ":")[1]

\* str.split("-", expand=True): the pieces of each Variant
Pieces(df) ==
  [i \in 1..Len(df) |->
     IF IsNaN(df[i].Variant) THEN <<>> ELSE Split(df[i].Variant, "-")]

\* a column of the expanded frame: None where the row has fewer pieces
Piece(parts, n) == IF n <= Len(parts) THEN parts[n] ELSE NaN

\* str.strip() of the blanks around a number
RECURSIVE Strip(_)
Strip(s) ==
  IF s = <<>> THEN s
  ELSE IF Head(s) = " " THEN Strip(Tail(s))
  ELSE IF s[Len(s)] = " " THEN Strip(SubSeq(s, 1, Len(s) - 1))
  ELSE s

\* the digits of an integer literal: the text without blanks around it and
\* without a leading "+" (a "-" cannot be left in a piece)
Unsigned(s) ==
  LET t == Strip(s)
  IN IF t # <<>> /\ Head(t) = "+" THEN Tail(t) ELSE t

\* int(s) accepts digits with single underscores between them
IntAccepts(s) ==
  LET u == Unsigned(s)
  IN /\ u # <<>>
     /\ IsDigit(u[1]) /\ IsDigit(u[Len(u)])
     /\ \A j \in 1..Len(u) : IsDigit(u[j]) \/ u[j] = "_"
     /\ \A j \in 1..(Len(u) - 1) : ~(u[j] = "_" /\ u[j + 1] = "_")

\* int(s) of an accepted literal
IntValue(s) == StrToInt(SelectSeq(Unsigned(s), IsDigit))

\* a column read from fields that are all empty is float64: it has no .str
NoText(df, col) == df # <<>> /\ \A i \in 1..Len(df) : IsNaN(df[i][col])

\* the line of parse_validator_batch that raises, 0 when none does.
\* lines 31, 34: .str on a column without strings raises AttributeError;
\* line 35: four names fit only a frame of four columns (the longest row has
\* four pieces); line 39: every POS must read as an integer
ParseErrorLine(df) ==
  LET parts == Pieces(df)
  IN IF NoText(df, "HGVSc_validator") THEN 31
     ELSE IF NoText(df, "Variant") THEN 34
     ELSE IF \/ \A i \in 1..Len(df) : Len(parts[i]) # 4
             \/ \E i \in 1..Len(df) : Len(parts[i]) > 4
     THEN 35
     ELSE IF \E i \in 1..Len(df) : Len(parts[i]) < 2 \/ ~IntAccepts(parts[i][2])
     THEN 39
     ELSE 0

ParseRaises(df) == ParseErrorLine(df) # 0

ParseError(df) == IF ParseErrorLine(df) \in {31, 34} THEN "AttributeError" ELSE "ValueError"

\* line 31: the Feature column is written to the frame that was passed in
WithFeature(df) ==
  [i \in 1..Len(df) |-> df[i] @@ [Feature |-> FeatureOf(df[i].HGVSc_validator)]]

parse_validator_batch(df) ==
  [i \in 1..Len(df) |->
     LET parts == Pieces(df)[i]
     IN [CHROM |-> Piece(parts, 1), POS |-> IntValue(parts[2]), REF |-> Piece(parts, 3),
         ALT |-> Piece(parts, 4), HGVSc_validator |-> df[i].HGVSc_validator,
         HGVSp_validator |-> df[i].HGVSp_validator,
         Feature |-> FeatureOf(df[i].HGVSc_validator)]]

\* main, line 172: main's vv_batch_df is the frame the function writes to
ParseValidatorBatch ==
  /\ pc = "rc_parse"
  /\ IF ParseRaises(vv_batch_df)
     THEN pc' = "raised" /\ error' = ParseError(vv_batch_df) /\ UNCHANGED parsed_vv_batch
     ELSE /\ parsed_vv_batch' = parse_validator_batch(vv_batch_df)
          /\ pc' = "rc_merge"
          /\ UNCHANGED error
  /\ vv_batch_df' = IF ParseErrorLine(vv_batch_df) = 31 THEN vv_batch_df
                    ELSE WithFeature(vv_batch_df)
  /\ UNCHANGED <<cmpVars, qryVars, fmtVars, wrkVars, runs, mismatches_tsv, vv_batch_file, rc_mismatches_df,
                 validator_merged, merged_df, merged_tsv, mismatch_counts,
                 change_counts, detail_files>>

\* the columns of the right frame that are not join keys
RightCols(r) ==
  [Consequence_old |-> r.Consequence_old, HGVSc_old |-> r.HGVSc_old,
   HGVSp_old |-> r.HGVSp_old, Consequence_new |-> r.Consequence_new,
   HGVSc_new |-> r.HGVSc_new, HGVSp_new |-> r.HGVSp_new]

\* pd.merge(left, right, on=[CHROM, POS, REF, ALT, Feature], how='inner'):
\* the rows in the order of the left frame
RECURSIVE merge_mismatches_batch(_, _)
merge_mismatches_batch(left, right) ==
  IF left = <<>> THEN <<>>
  ELSE LET l == Head(left)
           hits == SelectSeq(right, LAMBDA r : KeyOf(r) = KeyOf(l))
       IN [i \in 1..Len(hits) |-> l @@ RightCols(hits[i])]
          \o merge_mismatches_batch(Tail(left), right)

\* pd.merge refuses to join a column of strings with a column of integers
MergeRaises(left, right_file) ==
  left # <<>> /\ right_file # <<>> /\ ChromDtype(right_file) = "int64"

\* main, line 173: the parsed batch output is passed as the left frame
MergeMismatchesBatch ==
  /\ pc = "rc_merge"
  /\ IF MergeRaises(parsed_vv_batch, mismatches_tsv)
     THEN pc' = "raised" /\ error' = "ValueError" /\ UNCHANGED validator_merged
     ELSE /\ validator_merged' = merge_mismatches_batch(parsed_vv_batch, rc_mismatches_df)
          /\ pc' = "rc_convention"
          /\ UNCHANGED error
  /\ UNCHANGED <<cmpVars, qryVars, fmtVars, wrkVars, runs, mismatches_tsv, vv_batch_file, rc_mismatches_df,
                 vv_batch_df, parsed_vv_batch, merged_df, merged_tsv, mismatch_counts,
                 change_counts, detail_files>>

Placeholder == <<"p", ".", "?">>
Dot == <<".">>

\* mutant: the placeholder is left as the oracle wrote it
SetPlaceholder_keep(hp) == hp

\* line 58: a value that ends with p.? is set to .
SetPlaceholder(hp) == IF EndsWith(hp, Placeholder) THEN Dot ELSE hp

\* line 61: str.replace(r"[()]", "", regex=True)
RemoveBrackets(hp) == SelectSeq(hp, LAMBDA c : c \notin {"(", ")"})

\* mutant: the equals sign is left as the oracle wrote it
EncodeEquals_keep(hp) == hp

\* line 64: str.replace("=", "%3D")
RECURSIVE EncodeEquals(_)
EncodeEquals(hp) ==
  IF hp = <<>> THEN <<>>
  ELSE (IF Head(hp) = "=" THEN <<"%", "3", "D">> ELSE <<Head(hp)>>)
       \o EncodeEquals(Tail(hp))

convention_changes(df) ==
  [i \in 1..Len(df) |->
     [df[i] EXCEPT !.HGVSp_validator = EncodeEquals(RemoveBrackets(SetPlaceholder(@)))]]

\* .str needs a column of strings: a column read with no value at all is float64
NoStrings(batch) ==
  batch # <<>> /\ \A i \in 1..Len(batch) : IsNaN(batch[i].HGVSp_validator)

\* .loc refuses a mask that holds NaN
MaskHasNaN(df) == \E i \in 1..Len(df) : IsNaN(df[i].HGVSp_validator)

\* main, lines 174-176: the frame is normalised and written
ConventionChanges ==
  /\ pc = "rc_convention"
  /\ IF NoStrings(vv_batch_df) \/ MaskHasNaN(validator_merged)
     THEN /\ pc' = "raised"
          /\ error' = IF NoStrings(vv_batch_df) THEN "AttributeError" ELSE "ValueError"
          /\ UNCHANGED <<merged_df, merged_tsv>>
     ELSE /\ merged_df' = convention_changes(validator_merged)
          /\ merged_tsv' = [i \in 1..Len(merged_df') |->
                              [f \in DOMAIN merged_df'[i] |->
                                 IF f = "POS" THEN IntToStr(merged_df'[i][f])
                                 ELSE CsvCell(merged_df'[i][f])]]
          /\ pc' = "rc_flags"
          /\ UNCHANGED error
  /\ UNCHANGED <<cmpVars, qryVars, fmtVars, wrkVars, runs, mismatches_tsv, vv_batch_file, rc_mismatches_df,
                 vv_batch_df, parsed_vv_batch, validator_merged, mismatch_counts,
                 change_counts, detail_files>>

\* df[col].sum() of a boolean column
RECURSIVE SumOf(_, _)
SumOf(df, col) ==
  IF df = <<>> THEN 0
  ELSE (IF Head(df)[col] THEN 1 ELSE 0) + SumOf(Tail(df), col)

\* mutant: the new version's HGVSc is compared with the old version's
MismatchFlags_new_vs_old(r) ==
  LET c_old == Ne(r.HGVSc_old, r.HGVSc_validator)
      c_new == Ne(r.HGVSc_new, r.HGVSc_old)
      p_old == Ne(r.HGVSp_old, r.HGVSp_validator)
      p_new == Ne(r.HGVSp_new, r.HGVSp_validator)
  IN [HGVSc_old_mismatch |-> c_old, HGVSc_new_mismatch |-> c_new,
      HGVSp_old_mismatch |-> p_old, HGVSp_new_mismatch |-> p_new,
      HGVSc_both_mismatch |-> c_old /\ c_new, HGVSp_both_mismatch |-> p_old /\ p_new]

\* mutant: both_mismatch is computed with | in place of &
MismatchFlags_either(r) ==
  LET c_old == Ne(r.HGVSc_old, r.HGVSc_validator)
      c_new == Ne(r.HGVSc_new, r.HGVSc_validator)
      p_old == Ne(r.HGVSp_old, r.HGVSp_validator)
      p_new == Ne(r.HGVSp_new, r.HGVSp_validator)
  IN [HGVSc_old_mismatch |-> c_old, HGVSc_new_mismatch |-> c_new,
      HGVSp_old_mismatch |-> p_old, HGVSp_new_mismatch |-> p_new,
      HGVSc_both_mismatch |-> c_old \/ c_new, HGVSp_both_mismatch |-> p_old \/ p_new]

\* lines 73-78: the six flags of one row
MismatchFlags(r) ==
  LET c_old == Ne(r.HGVSc_old, r.HGVSc_validator)
      c_new == Ne(r.HGVSc_new, r.HGVSc_validator)
      p_old == Ne(r.HGVSp_old, r.HGVSp_validator)
      p_new == Ne(r.HGVSp_new, r.HGVSp_validator)
  IN [HGVSc_old_mismatch |-> c_old, HGVSc_new_mismatch |-> c_new,
      HGVSp_old_mismatch |-> p_old, HGVSp_new_mismatch |-> p_new,
      HGVSc_both_mismatch |-> c_old /\ c_new, HGVSp_both_mismatch |-> p_old /\ p_new]

MismatchCols == <<"HGVSc_old_mismatch", "HGVSc_new_mismatch", "HGVSc_both_mismatch",
                  "HGVSp_old_mismatch", "HGVSp_new_mismatch", "HGVSp_both_mismatch">>

\* main, line 178
FindVepValidatorMismatches ==
  /\ pc = "rc_flags"
  /\ merged_df' = [i \in 1..Len(merged_df) |-> merged_df[i] @@ MismatchFlags(merged_df[i])]
  /\ mismatch_counts' = [i \in 1..Len(MismatchCols) |->
                           [Mismatch_Type |-> MismatchCols[i],
                            Count |-> SumOf(merged_df', MismatchCols[i])]]
  /\ pc' = "rc_changes"
  /\ UNCHANGED <<cmpVars, qryVars, fmtVars, wrkVars, runs, mismatches_tsv, vv_batch_file, rc_mismatches_df,
                 vv_batch_df, parsed_vv_batch, validator_merged, merged_tsv,
                 change_counts, detail_files, error>>

\* mutant: the two transitions are taken for one another
ChangeFlags_swapped(r) ==
  [HGVSc_newly_corrected |-> ~r.HGVSc_old_mismatch /\ r.HGVSc_new_mismatch,
   HGVSp_newly_corrected |-> ~r.HGVSp_old_mismatch /\ r.HGVSp_new_mismatch,
   HGVSc_newly_wrong |-> r.HGVSc_old_mismatch /\ ~r.HGVSc_new_mismatch,
   HGVSp_newly_wrong |-> r.HGVSp_old_mismatch /\ ~r.HGVSp_new_mismatch]

\* lines 105-110: the four flags of one row
ChangeFlags(r) ==
  [HGVSc_newly_corrected |-> r.HGVSc_old_mismatch /\ ~r.HGVSc_new_mismatch,
   HGVSp_newly_corrected |-> r.HGVSp_old_mismatch /\ ~r.HGVSp_new_mismatch,
   HGVSc_newly_wrong |-> ~r.HGVSc_old_mismatch /\ r.HGVSc_new_mismatch,
   HGVSp_newly_wrong |-> ~r.HGVSp_old_mismatch /\ r.HGVSp_new_mismatch]

ChangeCols == <<"HGVSc_newly_wrong", "HGVSp_newly_wrong", "HGVSc_newly_corrected",
                "HGVSp_newly_corrected">>

\* mutant: the frame is written unfiltered
DetailRows_all(df, col) == df

\* lines 122-125: merged_df[merged_df[col] == True]
DetailRows(df, col) == SelectSeq(df, LAMBDA r : r[col])

\* main, line 179
FindNewChanges ==
  /\ pc = "rc_changes"
  /\ merged_df' = [i \in 1..Len(merged_df) |-> merged_df[i] @@ ChangeFlags(merged_df[i])]
  /\ change_counts' = [i \in 1..Len(ChangeCols) |->
                         [Mismatch_Type |-> ChangeCols[i],
                          Count |-> SumOf(merged_df', ChangeCols[i])]]
  /\ detail_files' = [i \in 1..Len(ChangeCols) |->
                        DetailRows(merged_df', ChangeCols[i])]
  /\ pc' = "rc_done"
  /\ UNCHANGED <<cmpVars, qryVars, fmtVars, wrkVars, runs, mismatches_tsv, vv_batch_file, rc_mismatches_df,
                 vv_batch_df, parsed_vv_batch, validator_merged, merged_tsv,
                 mismatch_counts, error>>

(***************************************************************************)
(* Idle values of the scripts a specification does not run                  *)
(***************************************************************************)
WrkIdle ==
  /\ wpc = <<>>
  /\ wtimer = <<>>
  /\ wattempt = <<>>
  /\ witems = <<>>

FmtIdle ==
  /\ response = JNull
  /\ formatted = <<>>

CmpIdle ==
  /\ vep_old = [k \in Keys |-> "absent"]
  /\ vep_new = [k \in Keys |-> "absent"]
  /\ annotations_old = <<>>
  /\ annotations_new = <<>>
  /\ all_dfs = <<>>
  /\ sample = 0
  /\ any_mismatches = <<>>
  /\ any_mismatches_tsv = <<>>
  /\ unique_variants = <<>>
  /\ unique_transcripts = <<>>

RcStart ==
  /\ rc_mismatches_df = <<>>
  /\ vv_batch_df = <<>>
  /\ parsed_vv_batch = <<>>
  /\ validator_merged = <<>>
  /\ merged_df = <<>>
  /\ merged_tsv = <<>>
  /\ mismatch_counts = <<>>
  /\ change_counts = <<>>
  /\ detail_files = <<>>

RcIdle ==
  /\ mismatches_tsv = <<>>
  /\ vv_batch_file = <<>>
  /\ RcStart

\* a run has no more chunks than there are variants
ChunkIds == 1..Cardinality(Variants)

QryIdle ==
  /\ input_file = <<>>
  /\ chunk_size = 1
  /\ files = [c \in ChunkIds |-> NoFile]
  /\ existing = {}
  /\ csv_files = <<>>

\* the state of query_validator_api.py at import: the limiter is constructed
QryStart ==
  /\ mismatches_df = <<>>
  /\ records = <<>>
  /\ chunked = <<>>
  /\ index = 0
  /\ row = 0
  /\ all_results = <<>>
  /\ elapsed = 0
  /\ num_calls = 0
  /\ attempt = 0
  /\ statuses = <<>>
  /\ waits = <<>>
  /\ outcome = <<>>
  /\ since_sent = TicksPerSec
  /\ gap = TicksPerSec
  /\ final_merged = NoFile

\* the mismatch files the Batch Client is run on
BatchRow(k) == MergedRow(AnnotationRow(k, Annot("A0", k.Feature)),
                         AnnotationRow(k, Annot("A2", k.Feature)))

\* the columns the input contract requires
RequiredColumns == {"CHROM", "POS", "REF", "ALT", "Feature"}

\* the file without one of its columns
WithoutColumn(file, c) ==
  [i \in 1..Len(file) |-> [f \in DOMAIN file[i] \ {c} |-> file[i][f]]]

InputFiles ==
  {to_csv(<<BatchRow(KeySeq[1])>>),
   to_csv(<<BatchRow(KeySeq[1]), BatchRow(KeySeq[2]), BatchRow(KeySeq[3])>>)}
    \cup {WithoutColumn(to_csv(<<BatchRow(KeySeq[1]), BatchRow(KeySeq[3])>>), c) :
            c \in RequiredColumns}

\* a chunk file and a validator*.csv file left in output_dir by an earlier run
PrevRows ==
  <<[variant |-> <<"1", "-", "1", "0", "0", "-", "A", "-", "G">>, Feature |-> NM_1,
     HGVSc_validator |-> HcOf(NM_1), HGVSp_validator |-> VvHp1]>>

(***************************************************************************)
(* Specification of the Merger run followed by the work-item construction   *)
(***************************************************************************)
InitMerge ==
  /\ \E cases \in [Keys -> PairCases] :
       /\ vep_old = [k \in Keys |-> cases[k][1]]
       /\ vep_new = [k \in Keys |-> cases[k][2]]
  /\ annotations_old = <<>>
  /\ annotations_new = <<>>
  /\ all_dfs = <<>>
  /\ sample = 0
  /\ any_mismatches = <<>>
  /\ any_mismatches_tsv = <<>>
  /\ unique_variants = <<>>
  /\ unique_transcripts = <<>>
  /\ input_file = <<>>
  /\ QryStart
  /\ chunk_size = 1
  /\ files = [c \in ChunkIds |-> NoFile]
  /\ existing = {}
  /\ csv_files = <<>>
  /\ RcIdle
  /\ pc = "cmp_loop"
  /\ error = "none"
  /\ FmtIdle
  /\ WrkIdle
  /\ runs = 1

NextMerge ==
  \/ ReadFile
  \/ FindMismatches
  \/ ConcatDropDuplicates
  \/ CreateVariantValidatorInputs
  \/ InvokeQuery
  \/ ReadInMismatches
  \/ GetUniqueVariants

SpecMerge == InitMerge /\ [][NextMerge]_vars

(***************************************************************************)
(* Specification of the comparison loop on sample files whose rows are in  *)
(* any order                                                               *)
(***************************************************************************)
\* the orderings of the rows of a table
Orderings(table) ==
  {[i \in 1..Len(table) |-> table[p[i]]] :
     p \in {q \in [1..Len(table) -> 1..Len(table)] :
              \A a, b \in 1..Len(table) : a # b => q[a] # q[b]}}

\* the samples compared: each carries one variant
OrderSamples == {{V1}, {V2}}

\* main, lines 207-208: read_csv keeps the order of the lines of the file
ReadFileAnyOrder ==
  /\ pc = "cmp_loop"
  /\ sample < MaxSamples
  /\ \E S \in OrderSamples :
       /\ annotations_old' \in Orderings(read_file(vep_old, S))
       /\ annotations_new' \in Orderings(read_file(vep_new, S))
  /\ pc' = "cmp_find"
  /\ UNCHANGED <<vep_old, vep_new, all_dfs, sample, any_mismatches, any_mismatches_tsv,
                 unique_variants, unique_transcripts, qryVars, rcVars, fmtVars, wrkVars, runs, error>>

\* what the two VEP versions annotate: every key in both, differing or not
OrderCases == {<<"A2", "A2">>, <<"A0", "A2">>}

InitOrder ==
  /\ \E cases \in [Keys -> OrderCases] :
       /\ vep_old = [k \in Keys |-> cases[k][1]]
       /\ vep_new = [k \in Keys |-> cases[k][2]]
  /\ annotations_old = <<>>
  /\ annotations_new = <<>>
  /\ all_dfs = <<>>
  /\ sample = 0
  /\ any_mismatches = <<>>
  /\ any_mismatches_tsv = <<>>
  /\ unique_variants = <<>>
  /\ unique_transcripts = <<>>
  /\ QryIdle
  /\ QryStart
  /\ RcIdle
  /\ FmtIdle
  /\ WrkIdle
  /\ runs = 1
  /\ pc = "cmp_loop"
  /\ error = "none"

NextOrder == ReadFileAnyOrder \/ FindMismatches

SpecOrder == InitOrder /\ [][NextOrder]_vars

(***************************************************************************)
(* Specification of one run of the Batch Client                            *)
(***************************************************************************)
InitBatch ==
  /\ CmpIdle
  /\ input_file \in InputFiles
  /\ QryStart
  /\ chunk_size \in 1..MaxChunkSize
  /\ files \in [ChunkIds -> {NoFile, FileOf(PrevRows)}]
  /\ existing = {c \in ChunkIds : files[c].exists}
  /\ csv_files \in {<<>>, <<PrevRows>>}
  /\ RcIdle
  /\ pc = "qry_read"
  /\ error = "none"
  /\ FmtIdle
  /\ WrkIdle
  /\ runs = 1

NextBatch ==
  \/ ReadInMismatches
  \/ GetUniqueVariants
  \/ Chunks
  \/ NextChunk
  \/ QueryVariant
  \/ RateLimit
  \/ Attempt
  \/ Backoff
  \/ WriteChunk
  \/ Gather

SpecBatch == InitBatch /\ [][NextBatch]_vars

(***************************************************************************)
(* Specification of the Batch Client invoked again on the output directory *)
(* an earlier invocation left                                              *)
(***************************************************************************)
MaxRuns == 2

\* the script has ended, with or without an error, and is invoked again: a
\* new process, the limiter constructed anew, the files of output_dir as
\* they were left
Invoke(file, size) ==
  /\ pc \in {"raised", "qry_done"}
  /\ runs < MaxRuns
  /\ runs' = runs + 1
  /\ input_file' = file
  /\ chunk_size' = size
  /\ existing' = {c \in ChunkIds : files[c].exists}
  /\ mismatches_df' = <<>>
  /\ records' = <<>>
  /\ chunked' = <<>>
  /\ index' = 0
  /\ row' = 0
  /\ all_results' = <<>>
  /\ elapsed' = 0
  /\ num_calls' = 0
  /\ attempt' = 0
  /\ statuses' = <<>>
  /\ waits' = <<>>
  /\ outcome' = <<>>
  /\ since_sent' = TicksPerSec
  /\ gap' = TicksPerSec
  /\ pc' = "qry_read"
  /\ error' = "none"
  /\ UNCHANGED <<cmpVars, rcVars, fmtVars, wrkVars, files, csv_files, final_merged>>

\* the same command line again
InvokeAgain == Invoke(input_file, chunk_size)

\* the mismatch files of the invocations
RerunFiles ==
  {to_csv(<<BatchRow(KeySeq[1])>>),
   to_csv(<<BatchRow(KeySeq[1]), BatchRow(KeySeq[2]), BatchRow(KeySeq[3])>>)}

\* another command line: any mismatch file, any chunk size
InvokeAny == \E file \in RerunFiles, size \in 1..MaxChunkSize : Invoke(file, size)

\* the first invocation, on an empty output directory
InitRerun ==
  /\ CmpIdle
  /\ input_file \in RerunFiles
  /\ QryStart
  /\ chunk_size \in 1..MaxChunkSize
  /\ files = [c \in ChunkIds |-> NoFile]
  /\ existing = {}
  /\ csv_files = <<>>
  /\ RcIdle
  /\ FmtIdle
  /\ WrkIdle
  /\ runs = 1
  /\ pc = "qry_read"
  /\ error = "none"

NextRerun == NextBatch \/ InvokeAgain

SpecRerun == InitRerun /\ [][NextRerun]_vars

NextRerunAny == NextBatch \/ InvokeAny

SpecRerunAny == InitRerun /\ [][NextRerunAny]_vars

(***************************************************************************)
(* Specification of one run of the Reconciler                              *)
(***************************************************************************)
\* the (variant, transcript) pairs of the two input files, in file order
RcKeySeq == <<Key(V1, NM_1), Key(V1, NM_2), Key(V2, NM_1)>>

\* the (old, new) annotations of a row of the mismatches file
RcPairs == {<<"absent", "absent">>, <<"A0", "A2">>, <<"A2", "A1">>, <<"A4", "A2">>,
            <<"A2", "A4">>}

\* what the batch output says of a pair: no line, or a line with this protein
RcProteins == {<<"absent">>, NaN, VvUnknown, VvHp1, VvSilent}

RECURSIVE RcMismatchRows(_, _)
RcMismatchRows(choice, i) ==
  IF i > Len(RcKeySeq) THEN <<>>
  ELSE LET k == RcKeySeq[i]
       IN (IF choice[i][1] = "absent" THEN <<>>
           ELSE <<MergedRow(AnnotationRow(k, Annot(choice[i][1], k.Feature)),
                            AnnotationRow(k, Annot(choice[i][2], k.Feature)))>>)
          \o RcMismatchRows(choice, i + 1)

\* a line of the VariantValidator batch output
BatchLine(k, hp) ==
  [Input |-> Join(<<"-">>, <<k.CHROM, IntToStr(k.POS), k.REF, k.ALT>>),
   HGVS_transcript |-> HcOf(k.Feature),
   HGVS_Predicted_Protein |-> CsvCell(hp)]

RECURSIVE RcBatchLines(_, _)
RcBatchLines(choice, i) ==
  IF i > Len(RcKeySeq) THEN <<>>
  ELSE (IF choice[i] = <<"absent">> THEN <<>> ELSE <<BatchLine(RcKeySeq[i], choice[i])>>)
       \o RcBatchLines(choice, i + 1)

InitReconcile ==
  /\ CmpIdle
  /\ QryIdle
  /\ QryStart
  /\ \E m \in [1..Len(RcKeySeq) -> RcPairs] :
       /\ \E i \in 1..Len(RcKeySeq) : m[i][1] # "absent"
       /\ mismatches_tsv = to_csv(RcMismatchRows(m, 1))
  /\ \E b \in [1..Len(RcKeySeq) -> RcProteins] :
       /\ \E i \in 1..Len(RcKeySeq) : b[i] # <<"absent">>
       /\ vv_batch_file = RcBatchLines(b, 1)
  /\ RcStart
  /\ pc = "rc_read"
  /\ error = "none"
  /\ FmtIdle
  /\ WrkIdle
  /\ runs = 1

NextReconcile ==
  \/ RcReadFile
  \/ ParseValidatorBatch
  \/ MergeMismatchesBatch
  \/ ConventionChanges
  \/ FindVepValidatorMismatches
  \/ FindNewChanges

SpecReconcile == InitReconcile /\ [][NextReconcile]_vars

(***************************************************************************)
(* Specification of the classifier applied to a reconciled frame           *)
(***************************************************************************)
\* a row of a reconciled frame: the two versions and the oracle, field by field
ClassifyRow(k, hc, hp, oracle) ==
  [CHROM |-> k.CHROM, POS |-> k.POS, REF |-> k.REF, ALT |-> k.ALT, Feature |-> k.Feature,
   Consequence_old |-> Mis, Consequence_new |-> Mis,
   HGVSc_old |-> hc[1], HGVSc_new |-> hc[2], HGVSp_old |-> hp[1], HGVSp_new |-> hp[2],
   HGVSc_validator |-> oracle[1], HGVSp_validator |-> oracle[2]]

\* the rows of one key: each VEP value agrees with the oracle's usual answer
\* or not, and each oracle value is present or null
ClassifyRows(k) ==
  {ClassifyRow(k, hc, hp, oracle) :
     hc \in {HcOf(k.Feature), HcAlt(k.Feature)} \X {HcOf(k.Feature), HcAlt(k.Feature)},
     hp \in {Hp1, NaN} \X {Hp1, NaN},
     oracle \in {HcOf(k.Feature), NaN} \X {Hp1, Dot, NaN}}

\* frames of one row, and of two rows of which the second has no oracle
\* protein or has the usual answers
ClassifyFrames ==
  {<<r>> : r \in ClassifyRows(Key(V1, NM_1))}
    \cup {<<r, ClassifyRow(Key(V2, NM_1), <<HcOf(NM_1), HcOf(NM_1)>>, <<NaN, Hp1>>,
                          <<HcOf(NM_1), pv>>)>> :
            r \in ClassifyRows(Key(V1, NM_1)), pv \in {Hp1, NaN}}

InitClassify ==
  /\ CmpIdle
  /\ QryIdle
  /\ QryStart
  /\ mismatches_tsv = <<>>
  /\ vv_batch_file = <<>>
  /\ rc_mismatches_df = <<>>
  /\ vv_batch_df = <<>>
  /\ parsed_vv_batch = <<>>
  /\ validator_merged = <<>>
  /\ merged_df \in ClassifyFrames
  /\ merged_tsv = <<>>
  /\ mismatch_counts = <<>>
  /\ change_counts = <<>>
  /\ detail_files = <<>>
  /\ pc = "rc_flags"
  /\ error = "none"
  /\ FmtIdle
  /\ WrkIdle
  /\ runs = 1

NextClassify ==
  \/ FindVepValidatorMismatches
  \/ FindNewChanges

SpecClassify == InitClassify /\ [][NextClassify]_vars

(***************************************************************************)
(* Specification of convention_changes applied to a reconciled frame, and  *)
(* again to the frame it returned                                          *)
(***************************************************************************)
\* the placeholder and a residue change as the oracle brackets predictions
VvUnknownBracketed == <<"N", "P", "_", "1", ":", "p", ".", "(", "?", ")">>
VvStartLost == <<"N", "P", "_", "1", ":", "p", ".", "(", "M", "1", "?", ")">>

\* the oracle protein values of the frames
NormaliseProteins ==
  {VvHp1, VvUnknown, VvSilent, VvUnknownBracketed, VvStartLost, Hp1, Dot, NaN}

NormaliseFrames ==
  {<<ClassifyRow(Key(V1, NM_1), <<HcOf(NM_1), HcOf(NM_1)>>, <<NaN, Hp1>>,
                 <<HcOf(NM_1), p>>)>> : p \in NormaliseProteins}
    \cup {<<ClassifyRow(Key(V1, NM_1), <<HcOf(NM_1), HcOf(NM_1)>>, <<NaN, Hp1>>,
                        <<HcOf(NM_1), p>>),
            ClassifyRow(Key(V2, NM_1), <<HcOf(NM_1), HcOf(NM_1)>>, <<NaN, Hp1>>,
                        <<HcOf(NM_1), q>>)>> :
            p \in NormaliseProteins, q \in NormaliseProteins}

\* the line of the batch output a row of the frame was merged from
BatchRowOf(r) ==
  [Variant |-> Join(<<"-">>, <<r.CHROM, IntToStr(r.POS), r.REF, r.ALT>>),
   HGVSc_validator |-> r.HGVSc_validator, HGVSp_validator |-> r.HGVSp_validator,
   Feature |-> r.Feature]

\* the batch frames a merged frame can come from: its own lines, and
\* possibly a line with a protein that joined no mismatch row. The merged
\* column has the dtype of the batch column
BatchFramesOf(frame) ==
  LET own == [i \in 1..Len(frame) |-> BatchRowOf(frame[i])]
      other == [Variant |-> Join(<<"-">>, <<V1.CHROM, IntToStr(V1.POS), V1.REF, V1.ALT>>),
                HGVSc_validator |-> HcOf(NM_2), HGVSp_validator |-> VvHp1,
                Feature |-> NM_2]
  IN {own, Append(own, other)}

\* convention_changes called on the frame in hand
ApplyConventionChanges ==
  /\ pc \in {"rc_apply", "rc_applied"}
  /\ IF NoStrings(vv_batch_df) \/ MaskHasNaN(merged_df)
     THEN /\ pc' = "raised"
          /\ error' = IF NoStrings(vv_batch_df) THEN "AttributeError" ELSE "ValueError"
          /\ UNCHANGED merged_df
     ELSE /\ merged_df' = convention_changes(merged_df)
          /\ pc' = "rc_applied"
          /\ UNCHANGED error
  /\ UNCHANGED <<cmpVars, qryVars, fmtVars, wrkVars, runs, mismatches_tsv, vv_batch_file,
                 rc_mismatches_df, vv_batch_df, parsed_vv_batch, validator_merged,
                 merged_tsv, mismatch_counts, change_counts, detail_files>>

InitNormalise ==
  /\ CmpIdle
  /\ QryIdle
  /\ QryStart
  /\ mismatches_tsv = <<>>
  /\ vv_batch_file = <<>>
  /\ rc_mismatches_df = <<>>
  /\ parsed_vv_batch = <<>>
  /\ validator_merged \in NormaliseFrames
  /\ vv_batch_df \in BatchFramesOf(validator_merged)
  /\ merged_df = validator_merged
  /\ merged_tsv = <<>>
  /\ mismatch_counts = <<>>
  /\ change_counts = <<>>
  /\ detail_files = <<>>
  /\ pc = "rc_apply"
  /\ error = "none"
  /\ FmtIdle
  /\ WrkIdle
  /\ runs = 1

NextNormalise == ApplyConventionChanges

SpecNormalise == InitNormalise /\ [][NextNormalise]_vars

(***************************************************************************)
(* Specification of the variant description's way through the two scripts: *)
(* read_in_mismatches builds it, the batch output carries it back, and     *)
(* parse_validator_batch and merge_mismatches_batch take it apart and join *)
(***************************************************************************)
\* a variant on a contig whose name holds the separator
V3 == [CHROM |-> <<"H", "L", "A", "-", "A">>, POS |-> 7, REF |-> <<"G">>, ALT |-> <<"A">>]

RoundTripKeySeq == <<Key(V1, NM_1), Key(V2, NM_1), Key(V3, NM_1)>>

\* the (old, new) annotations of a row of the mismatches file
RoundTripPairs == {<<"absent", "absent">>, <<"A0", "A2">>, <<"A2", "A4">>}

RECURSIVE RoundTripRows(_, _)
RoundTripRows(choice, i) ==
  IF i > Len(RoundTripKeySeq) THEN <<>>
  ELSE LET k == RoundTripKeySeq[i]
       IN (IF choice[i][1] = "absent" THEN <<>>
           ELSE <<MergedRow(AnnotationRow(k, Annot(choice[i][1], k.Feature)),
                            AnnotationRow(k, Annot(choice[i][2], k.Feature)))>>)
          \o RoundTripRows(choice, i + 1)

\* what the batch output holds of a row: no line, a line with the
\* transcript, or the line of a variant that was not resolved (no transcript)
RoundTripChoices == {"absent", "line", "failed"}

\* the batch output lines of the chosen rows: Input is the description that
\* read_in_mismatches built for the row
RECURSIVE RoundTripLines(_, _, _)
RoundTripLines(df, chosen, i) ==
  IF i > Len(df) THEN <<>>
  ELSE (IF chosen[i] = "absent" THEN <<>>
        ELSE <<[Input |-> df[i].variant_description,
                HGVS_transcript |-> IF chosen[i] = "line" THEN HcOf(df[i].Feature)
                                    ELSE <<>>,
                HGVS_Predicted_Protein |-> VvHp1]>>)
       \o RoundTripLines(df, chosen, i + 1)

InitRoundTrip ==
  /\ CmpIdle
  /\ QryIdle
  /\ QryStart
  /\ \E m \in [1..Len(RoundTripKeySeq) -> RoundTripPairs] :
       /\ \E i \in 1..Len(RoundTripKeySeq) : m[i][1] # "absent"
       /\ mismatches_tsv = to_csv(RoundTripRows(m, 1))
  /\ LET df == read_in_mismatches(mismatches_tsv).df
     IN \E chosen \in [1..Len(df) -> RoundTripChoices] :
          /\ \E i \in 1..Len(df) : chosen[i] # "absent"
          /\ vv_batch_file = RoundTripLines(df, chosen, 1)
  /\ RcStart
  /\ pc = "rc_read"
  /\ error = "none"
  /\ FmtIdle
  /\ WrkIdle
  /\ runs = 1

NextRoundTrip ==
  \/ RcReadFile
  \/ ParseValidatorBatch
  \/ MergeMismatchesBatch

SpecRoundTrip == InitRoundTrip /\ [][NextRoundTrip]_vars

(***************************************************************************)
(* Specification of format_results applied to a decoded body               *)
(***************************************************************************)
\* what the oracle can say of one transcript: both descriptions, the protein
\* one missing, null, neither, or a value that is not a map
HgvsShapes(tx) ==
  {OracleHgvs(tx),
   JDict(<<[k |-> T_hgvs, v |-> JStr(HcOf(tx))]>>),
   JDict(<<[k |-> T_hgvs, v |-> JStr(HcOf(tx))], [k |-> P_hgvs_tlc, v |-> JNull]>>),
   JDict(<<>>),
   JStr(HcOf(tx)),
   JNull}

\* the maps hgvs_t_and_p can be: no transcript, one, two
HgvsMaps ==
  {JDict(<<>>)}
    \cup {JDict(<<[k |-> NM_1, v |-> h]>>) : h \in HgvsShapes(NM_1)}
    \cup {JDict(<<[k |-> NM_1, v |-> h], [k |-> NM_2, v |-> g]>>) :
            h \in HgvsShapes(NM_1), g \in HgvsShapes(NM_2)}

\* the value of the variant's key at top level
InfoShapes(desc) ==
  {JDict(<<>>),
   JStr(desc),
   JDict(<<[k |-> desc, v |-> JNull]>>),
   JDict(<<[k |-> desc, v |-> JDict(<<>>)]>>),
   JDict(<<[k |-> desc, v |-> JDict(<<[k |-> Hgvs_t_and_p, v |-> JNull]>>)]>>)}
    \cup {JDict(<<[k |-> desc, v |-> JDict(<<[k |-> Hgvs_t_and_p, v |-> m]>>)]>>) :
            m \in HgvsMaps}

\* the entry metadata: absent, empty, or shaped like the entry of a variant
MetadataShapes ==
  {<<>>,
   <<[k |-> Metadata, v |-> JDict(<<>>)]>>,
   <<[k |-> Metadata,
      v |-> JDict(<<[k |-> Metadata,
                     v |-> JDict(<<[k |-> Hgvs_t_and_p,
                                    v |-> JDict(<<[k |-> NM_1,
                                                   v |-> OracleHgvs(NM_1)]>>)]>>)]>>)]>>}

DescOf(v) == Join(<<"-">>, <<v.CHROM, IntToStr(v.POS), v.REF, v.ALT>>)

Responses ==
  {JDict(<<[k |-> DescOf(V1), v |-> info]>> \o meta) :
     info \in InfoShapes(DescOf(V1)), meta \in MetadataShapes}

InitFormat ==
  /\ WrkIdle
  /\ runs = 1
  /\ CmpIdle
  /\ QryIdle
  /\ QryStart
  /\ RcIdle
  /\ response \in Responses
  /\ formatted = <<>>
  /\ pc = "fmt_call"
  /\ error = "none"

NextFormat == FormatResults

SpecFormat == InitFormat /\ [][NextFormat]_vars

(***************************************************************************)
(* Several workers in one process, one per chunk, each calling             *)
(* fetch_endpoint for the work items of its chunk. The limiter is the one  *)
(* object the decorator constructed at import, shared by all workers; its  *)
(* counting is done under its lock, so it is one atomic step. Time is      *)
(* global: a tick passes when every running worker is asleep or waiting    *)
(* for an answer.                                                          *)
(***************************************************************************)
NumWorkers == 2
\* the longest time, in ticks, a thread waits to be scheduled between leaving
\* the limiter's lock and calling requests.get
MaxPreempt == 1

Workers == 1..NumWorkers

Running(w) == wpc[w] \in {"limit", "counted", "flight", "backoff"}

\* requests.get is called: the request goes out
Send ==
  /\ gap' = since_sent
  /\ since_sent' = 0

\* the wrapper of @limits entered by worker w, after its sleep if it was
\* refused before (sleep_and_retry): the call is counted under the limiter's
\* lock; the lock is released before the wrapped function is called
WorkerLimit(w) ==
  /\ wpc[w] = "limit"
  /\ wtimer[w] = 0
  /\ LET reset == PeriodRemaining <= 0
         counted == (IF reset THEN 0 ELSE num_calls) + 1
     IN /\ num_calls' = counted
        /\ elapsed' = (IF reset THEN 0 ELSE elapsed)
        /\ IF counted > LimitCalls
           THEN \* RateLimitException: time.sleep(period_remaining), call again
                /\ wtimer' = [wtimer EXCEPT ![w] = PeriodRemaining]
                /\ UNCHANGED <<wpc, wattempt, since_sent, gap>>
           ELSE \* counted: the thread goes on to the retrying function when
                \* it is next scheduled
                /\ wpc' = [wpc EXCEPT ![w] = "counted"]
                /\ \E wait \in 0..MaxPreempt :
                     wtimer' = [wtimer EXCEPT ![w] = wait]
                /\ UNCHANGED <<wattempt, since_sent, gap>>
  /\ UNCHANGED <<cmpVars, inVars, loopVars, attempt, statuses, waits, outcome, rcVars,
                 fmtVars, witems, runs, pc, error>>

\* the first attempt of worker w: the body of fetch_endpoint reaches
\* requests.get, outside the limiter's lock
WorkerSend(w) ==
  /\ wpc[w] = "counted"
  /\ wtimer[w] = 0
  /\ Send
  /\ wattempt' = [wattempt EXCEPT ![w] = 1]
  /\ wpc' = [wpc EXCEPT ![w] = "flight"]
  /\ \E latency \in 1..MaxLatency : wtimer' = [wtimer EXCEPT ![w] = latency]
  /\ UNCHANGED <<cmpVars, inVars, loopVars, elapsed, num_calls, attempt, statuses, waits,
                 outcome, rcVars, fmtVars, witems, runs, pc, error>>

\* the answer to the request of worker w arrives
WorkerAnswer(w) ==
  /\ wpc[w] = "flight"
  /\ wtimer[w] = 0
  /\ \E status \in Statuses :
       IF Raises(status)
       THEN IF ShouldStop(wattempt[w])
            THEN \* RetryError ends the worker
                 /\ wpc' = [wpc EXCEPT ![w] = "raised"]
                 /\ UNCHANGED <<wtimer, witems>>
            ELSE /\ wpc' = [wpc EXCEPT ![w] = "backoff"]
                 /\ wtimer' = [wtimer EXCEPT ![w] =
                                 WaitExponential(wattempt[w]) * TicksPerSec]
                 /\ UNCHANGED witems
       ELSE \* the work item is done; the next one of the chunk, if any
            /\ witems' = [witems EXCEPT ![w] = @ - 1]
            /\ wpc' = [wpc EXCEPT ![w] = IF witems[w] > 1 THEN "limit" ELSE "done"]
            /\ UNCHANGED wtimer
  /\ UNCHANGED <<cmpVars, qryVars, rcVars, fmtVars, wattempt, runs, pc, error>>

\* tenacity has slept: the next attempt of worker w, inside the limiter
WorkerRetry(w) ==
  /\ wpc[w] = "backoff"
  /\ wtimer[w] = 0
  /\ Send
  /\ wattempt' = [wattempt EXCEPT ![w] = @ + 1]
  /\ wpc' = [wpc EXCEPT ![w] = "flight"]
  /\ \E latency \in 1..MaxLatency : wtimer' = [wtimer EXCEPT ![w] = latency]
  /\ UNCHANGED <<cmpVars, inVars, loopVars, elapsed, num_calls, attempt, statuses, waits,
                 outcome, rcVars, fmtVars, witems, runs, pc, error>>

\* one tick passes
Tick ==
  /\ \E w \in Workers : Running(w)
  /\ \A w \in Workers : Running(w) => wtimer[w] > 0
  /\ wtimer' = [w \in Workers |-> IF Running(w) THEN wtimer[w] - 1 ELSE wtimer[w]]
  /\ Passes(1)
  /\ UNCHANGED <<cmpVars, inVars, loopVars, num_calls, attempt, statuses, waits, outcome,
                 gap, rcVars, fmtVars, wpc, wattempt, witems, runs, pc, error>>

\* the workers are started at any time after the import, one chunk each
InitWorkers ==
  /\ CmpIdle
  /\ QryIdle
  /\ QryStart
  /\ RcIdle
  /\ FmtIdle
  /\ wpc = [w \in Workers |-> "limit"]
  /\ wtimer \in [Workers -> 0..TicksPerSec]
  /\ wattempt = [w \in Workers |-> 0]
  /\ witems \in [Workers -> 1..MaxChunkSize]
  /\ runs = 1
  /\ pc = "workers"
  /\ error = "none"

NextWorkers ==
  \/ \E w \in Workers : WorkerLimit(w) \/ WorkerSend(w) \/ WorkerAnswer(w) \/ WorkerRetry(w)
  \/ Tick

SpecWorkers == InitWorkers /\ [][NextWorkers]_vars

(***************************************************************************)
(* Specification of chunks applied to lists of work items                  *)
(***************************************************************************)
MaxItems == 4

\* the transcripts of a work item, joined with "|" by the grouping
FeatureLists == {NM_1, NM_2, Join(<<"|">>, <<NM_1, NM_2>>)}

\* lists of work items as tx_by_variant.to_dict("records") gives them: one
\* per variant, in the order of the variant descriptions
RecordLists ==
  UNION {{[g \in 1..len |->
             [variant_description |->
                Join(<<"-">>, <<IntToStr(g), IntToStr(V1.POS), V1.REF, V1.ALT>>),
              Feature |-> fs[g]]] :
            fs \in [1..len -> FeatureLists]} :
         len \in 0..MaxItems}

InitChunks ==
  /\ CmpIdle
  /\ input_file = <<>>
  /\ files = [c \in ChunkIds |-> NoFile]
  /\ existing = {}
  /\ csv_files = <<>>
  /\ RcIdle
  /\ FmtIdle
  /\ WrkIdle
  /\ runs = 1
  /\ mismatches_df = <<>>
  /\ records \in RecordLists
  /\ chunk_size \in 1..MaxChunkSize
  /\ chunked = <<>>
  /\ index = 0
  /\ row = 0
  /\ all_results = <<>>
  /\ elapsed = 0
  /\ num_calls = 0
  /\ attempt = 0
  /\ statuses = <<>>
  /\ waits = <<>>
  /\ outcome = <<>>
  /\ since_sent = TicksPerSec
  /\ gap = TicksPerSec
  /\ final_merged = NoFile
  /\ pc = "qry_chunk"
  /\ error = "none"

NextChunks == Chunks

SpecChunks == InitChunks /\ [][NextChunks]_vars

(***************************************************************************)
(* Claims about the Merger (checked under SpecMerge)                       *)
(***************************************************************************)
\* the table find_mismatches returned for the sample just compared
JustCompared == pc = "cmp_loop" /\ sample >= 1

LastOut == all_dfs[Len(all_dfs)]

InTable(table, k) == \E i \in 1..Len(table) : KeyOf(table[i]) = k

RowOf(table, k) == table[CHOOSE i \in 1..Len(table) : KeyOf(table[i]) = k]

\* the compared fields that differ between the two versions of a key, as strings
\* (a field empty on both sides is the same on both sides)
DifferingFields(o, n) ==
  {f \in {"Consequence", "HGVSc", "HGVSp"} :
     CASE f = "Consequence" -> o.Consequence # n.Consequence
       [] f = "HGVSc" -> o.HGVSc # n.HGVSc
       [] f = "HGVSp" -> o.HGVSp # n.HGVSp}

InBoth(k) == InTable(annotations_old, k) /\ InTable(annotations_new, k)

FieldsDifferAt(k) ==
  DifferingFields(RowOf(annotations_old, k), RowOf(annotations_new, k))

\* C1: find_mismatches emits a row for a key iff the key is in both tables, at
\* least one of Consequence, HGVSc, HGVSp differs between the two versions and
\* the transcript does not start with NR_; a pair with identical fields (an
\* empty field on both sides included) is never emitted.
C1_EmittedIffDiffers ==
  JustCompared =>
    \A k \in Keys :
      InTable(LastOut, k) <=>
        (/\ InBoth(k)
         /\ FieldsDifferAt(k) # {}
         /\ ~StartsWith(k.Feature, NR_prefix))

CarriesBothVersions(r, o, n) ==
  /\ r.Consequence_old = o.Consequence /\ r.Consequence_new = n.Consequence
  /\ r.HGVSc_old = o.HGVSc /\ r.HGVSc_new = n.HGVSc
  /\ r.HGVSp_old = o.HGVSp /\ r.HGVSp_new = n.HGVSp

OneFieldDiffers(k) ==
  /\ InBoth(k)
  /\ Cardinality(FieldsDifferAt(k)) = 1
  /\ ~StartsWith(k.Feature, NR_prefix)

\* C2: a pair present in both tables whose versions differ in exactly one of
\* the three compared fields (transcript not excluded) gets exactly one row,
\* which carries the three fields of the old and of the new version.
C2_OneRowPerSingleDifference ==
  JustCompared =>
    \A k \in Keys :
      OneFieldDiffers(k) =>
        /\ Cardinality({i \in 1..Len(LastOut) : KeyOf(LastOut[i]) = k}) = 1
        /\ CarriesBothVersions(RowOf(LastOut, k), RowOf(annotations_old, k),
                               RowOf(annotations_new, k))

\* a pair that differs in the Consequence alone has just been compared
C2_Witness ==
  /\ JustCompared
  /\ \E k \in Keys : OneFieldDiffers(k) /\ FieldsDifferAt(k) = {"Consequence"}
                     /\ InTable(LastOut, k)

HasNR(features) == \E i \in 1..Len(features) : StartsWith(features[i], NR_prefix)

\* C3: no row whose transcript starts with NR_ is in the output of
\* find_mismatches, in the deduplicated mismatch table (in memory, on file, as
\* read back) or in the transcript list of a work item.
C3_NoNonCodingTranscript ==
  /\ \A s \in 1..Len(all_dfs) : ~HasNR([i \in 1..Len(all_dfs[s]) |-> all_dfs[s][i].Feature])
  /\ ~HasNR([i \in 1..Len(any_mismatches) |-> any_mismatches[i].Feature])
  /\ ~HasNR([i \in 1..Len(any_mismatches_tsv) |-> any_mismatches_tsv[i].Feature])
  /\ ~HasNR([i \in 1..Len(mismatches_df) |-> mismatches_df[i].Feature])
  /\ \A w \in 1..Len(records) : ~HasNR(Split(records[w].Feature, "|"))

\* an NR_ transcript whose two versions differ was compared, and the work
\* items of its variant were built
C3_Witness ==
  /\ pc = "qry_chunk"
  /\ \E k \in Keys :
       /\ StartsWith(k.Feature, NR_prefix)
       /\ InBoth(k)
       /\ FieldsDifferAt(k) # {}
       /\ \E w \in 1..Len(records) :
            records[w].variant_description =
              Join(<<"-">>, <<k.CHROM, IntToStr(k.POS), k.REF, k.ALT>>)

Count(table, r) == Cardinality({i \in 1..Len(table) : table[i] = r})

Descriptions(df) == {df[i].variant_description : i \in 1..Len(df)}

\* C4: a mismatch that recurs in the samples is held once by the concatenated,
\* deduplicated table, and there is exactly one work item per distinct variant
\* description, listing the transcripts of its rows, however many transcripts
\* or samples reference the variant; the query loop runs over these work items.
C4_OneWorkItemPerVariant ==
  pc = "qry_chunk" =>
    /\ \A r \in Range(Concat(all_dfs)) : Count(any_mismatches, r) = 1
    /\ Len(mismatches_df) = Len(any_mismatches)
    /\ {records[w].variant_description : w \in 1..Len(records)} = Descriptions(mismatches_df)
    /\ \A d \in Descriptions(mismatches_df) :
         /\ Cardinality({w \in 1..Len(records) : records[w].variant_description = d}) = 1
         /\ \A w \in 1..Len(records) :
              records[w].variant_description = d =>
                Split(records[w].Feature, "|") =
                  LET rows == SelectSeq(mismatches_df, LAMBDA r : r.variant_description = d)
                  IN [i \in 1..Len(rows) |-> rows[i].Feature]

\* the same mismatch was found in every one of two samples, and a variant with
\* two mismatching transcripts became one work item
C4_Witness ==
  /\ pc = "qry_chunk"
  /\ sample = 2
  /\ \E r \in Range(all_dfs[1]) : r \in Range(all_dfs[2])
  /\ \E w \in 1..Len(records) : Len(Split(records[w].Feature, "|")) = 2

\* the order of the keys: by CHROM, POS, REF, ALT, Feature
KeyBefore(a, b) ==
  \/ StrLess(a.CHROM, b.CHROM)
  \/ a.CHROM = b.CHROM /\ a.POS < b.POS
  \/ a.CHROM = b.CHROM /\ a.POS = b.POS /\ StrLess(a.REF, b.REF)
  \/ a.CHROM = b.CHROM /\ a.POS = b.POS /\ a.REF = b.REF /\ StrLess(a.ALT, b.ALT)
  \/ /\ a.CHROM = b.CHROM /\ a.POS = b.POS /\ a.REF = b.REF /\ a.ALT = b.ALT
     /\ StrLess(a.Feature, b.Feature)

\* C22: the tables find_mismatches returns for sample files that hold the
\* same rows in different orders are the same sequence of rows, the rows
\* being in the order of their keys
C22_StableOutputOrder ==
  /\ \A i, j \in 1..Len(all_dfs) :
       Range(all_dfs[i]) = Range(all_dfs[j]) => all_dfs[i] = all_dfs[j]
  /\ \A t \in 1..Len(all_dfs) :
       \A i \in 1..(Len(all_dfs[t]) - 1) : KeyBefore(all_dfs[t][i], all_dfs[t][i + 1])

(***************************************************************************)
(* Claims about the Batch Client (checked under SpecBatch)                 *)
(***************************************************************************)
\* C5: any two outbound requests are started at least one second apart,
\* whatever the chunk, the work item or the attempt they belong to
C5_OneRequestPerSecond == gap >= TicksPerSec

\* every answer the work item in hand has had is a 429
AllTooMany == statuses # <<>> /\ \A i \in 1..Len(statuses) : statuses[i] = 429

\* C6: a work item whose every attempt is answered 429 is attempted
\* StopAfterAttempt times and no more, nothing is recorded for it, and the
\* loop goes on to the next work item instead of ending with an error
C6_ExhaustedRetriesNotFatal ==
  AllTooMany =>
    /\ Len(statuses) <= StopAfterAttempt
    /\ Len(statuses) = StopAfterAttempt =>
         /\ pc = "qry_row"
         /\ error = "none"
         /\ \A i \in 1..Len(all_results) :
              all_results[i].variant # records[Cur - 1].variant_description

\* the rows this run has recorded: those of the chunk in hand and those of
\* the chunk files it has written
Recorded ==
  Range(all_results)
    \cup UNION {Range(files[c].rows) : c \in {d \in DOMAIN files : d \notin existing}}

\* C7: an answer 500 is the last answer its work item gets (no retry), the
\* loop is then at the next row of the chunk with no error, and no row is
\* ever recorded for a work item that was answered 500
C7_ServerErrorSkipsItem ==
  /\ \A i \in 1..(Len(statuses) - 1) : statuses[i] # 500
  /\ (statuses # <<>> /\ statuses[Len(statuses)] = 500) =>
       /\ pc = "qry_row"
       /\ error = "none"
       /\ outcome[Cur - 1] = "skipped"
  /\ \A g \in DOMAIN outcome :
       outcome[g] = "skipped" =>
         \A r \in Recorded : r.variant # records[g].variant_description

\* a work item was answered 500 and a later one was queried and answered
C7_Witness ==
  \E g \in DOMAIN outcome, h \in DOMAIN outcome :
    g < h /\ outcome[g] = "skipped" /\ outcome[h] = "answered"

\* the positions in records of the work items of chunk c
ItemsOf(c) == {g \in 1..Len(records) : ((g - 1) \div chunk_size) + 1 = c}

\* the loop over the chunks is over
LoopOver == pc \in {"qry_gather", "qry_done"} \/ (pc = "raised" /\ error = "ValueError")

\* C8: a chunk whose file existed at the start keeps that file as it was and
\* none of its work items is ever queried, while every other chunk has been
\* queried and written when the loop is over
C8_ExistingChunkSkipped ==
  /\ \A c \in existing :
       /\ files[c] = FileOf(PrevRows)
       /\ \A g \in ItemsOf(c) \cap DOMAIN outcome : outcome[g] = "pending"
  /\ LoopOver =>
       \A c \in (1..Len(chunked)) \ existing :
         /\ files[c].exists
         /\ \A g \in ItemsOf(c) : outcome[g] \in {"answered", "empty", "skipped"}

\* the loop is over: one chunk was skipped for its file, another was queried
C8_Witness ==
  /\ pc = "qry_gather"
  /\ \E c \in existing, d \in (1..Len(chunked)) \ existing :
       /\ c <= Len(chunked)
       /\ \A g \in ItemsOf(c) : outcome[g] = "pending"
       /\ \E g \in ItemsOf(d) : outcome[g] = "answered"

\* the transcripts the work item of this variant asked for
Requested(variant) ==
  UNION {Range(Split(records[g].Feature, "|")) :
           g \in {h \in 1..Len(records) : records[h].variant_description = variant}}

\* C15: every result this run keeps (in the chunk in hand, in a chunk file it
\* wrote) is of a transcript that the work item of its variant asked for
C15_OnlyRequestedTranscripts ==
  \A r \in Recorded : r.Feature \in Requested(r.variant)

\* C16: a 200 response whose body has not the expected shape does not end
\* the run with an error: the loop goes on with the next work item
C16_MalformedBodyNotFatal ==
  \A g \in DOMAIN outcome :
    outcome[g] = "malformed" => (pc # "raised" /\ error = "none")

\* an answer that is neither a success, nor a 429, nor a 500
Fatal(status) == status >= 300 /\ status # 429 /\ status # 500

\* C17: a response with a non-2xx status other than 429 or 500 ends the call:
\* no further attempt is made for the work item, the error ends the loop and
\* no result is recorded for the work item
C17_OtherErrorFatal ==
  \A i \in 1..Len(statuses) :
    Fatal(statuses[i]) =>
      /\ i = Len(statuses)
      /\ pc = "raised"
      /\ \A r \in Recorded : r.variant # records[Cur].variant_description

\* C19: for the work item in hand every attempt but the first comes after
\* one wait; the first wait is 1 second, each later wait is double the one
\* before, no wait is longer than 10 seconds, and at most 5 requests are sent
C19_ExponentialBackoff ==
  /\ Len(statuses) <= 5
  /\ pc = "attempt" => Len(waits) = Len(statuses) /\ attempt = Len(statuses) + 1
  /\ pc = "backoff" => Len(waits) = Len(statuses) - 1
  /\ Len(waits) <= Len(statuses)
  /\ waits # <<>> => waits[1] = 1
  /\ \A i \in 2..Len(waits) : waits[i] = 2 * waits[i - 1]
  /\ \A i \in 1..Len(waits) : waits[i] <= 10

\* a fifth request was sent after four waits
C19_Witness ==
  /\ Len(statuses) = 5
  /\ Len(waits) = 4
  /\ waits[4] = 8

\* the work items have been chunked
Chunked == index >= 1

\* C20: the chunks are consecutive groups of the work items: every group
\* but the last has exactly chunk_size items, the last has between 1 and
\* chunk_size, and the groups concatenated in order are the list of work
\* items, so each work item is in exactly one chunk whatever the chunk size
C20_ChunksPartition ==
  Chunked =>
    /\ \A i \in 1..(Len(chunked) - 1) : Len(chunked[i]) = chunk_size
    /\ chunked # <<>> =>
         /\ Len(chunked[Len(chunked)]) >= 1
         /\ Len(chunked[Len(chunked)]) <= chunk_size
    /\ Concat(chunked) = records

\* three work items in chunks of two: a full group and a last group of one
C20_Witness ==
  /\ Chunked
  /\ chunk_size = 2
  /\ Len(records) = 3
  /\ Len(chunked[1]) = 2
  /\ Len(chunked) = 2
  /\ Len(chunked[2]) = 1

\* C21: with several workers sharing the one limiter, any two outbound
\* requests, of whichever workers, are started at least one second apart
C21_SharedLimiterOneRequestPerSecond ==
  pc = "workers" => gap >= TicksPerSec

\* the outcomes that end the query of a work item without ending the run
Terminal == {"answered", "empty", "skipped"}

\* an error ended the run while a chunk was being queried
AbortedInChunk == pc = "raised" /\ error \in {"RetryError", "AttributeError"}

\* what holds of the chunk files in every state of every invocation
ChunkFilesComplete ==
  /\ \A c \in ChunkIds \ existing :
       files[c].exists =>
         /\ c <= Len(chunked)
         /\ \A g \in ItemsOf(c) : outcome[g] \in Terminal
  /\ AbortedInChunk =>
       /\ ~files[index].exists
       /\ \A c \in 1..(index - 1) : files[c].exists
  /\ runs > 1 =>
       /\ \A c \in existing :
            \A g \in ItemsOf(c) \cap DOMAIN outcome : outcome[g] = "pending"
       /\ LoopOver =>
            \A c \in (1..Len(chunked)) \ existing :
              \A g \in ItemsOf(c) : outcome[g] \in Terminal

\* C24: a chunk file written by an invocation exists only when every work
\* item of its chunk was answered or skipped in that invocation; an
\* invocation that an error ends within a chunk leaves no file for that chunk
\* and the files of the chunks before it; no step, a new invocation included,
\* changes or removes a chunk file; and the next invocation of the same
\* command queries no work item of a chunk that has its file and, when its
\* loop is over, has queried every work item of the chunks that had none
C24_FileOnlyForCompleteChunk ==
  /\ []ChunkFilesComplete
  /\ [][\A c \in ChunkIds : files[c].exists => files'[c] = files[c]]_vars

\* the first invocation wrote chunk 1 and was ended by an error in chunk 2;
\* the second skipped chunk 1 and queried chunk 2 to its end
C24_Witness ==
  /\ runs = 2
  /\ existing = {1}
  /\ pc = "qry_gather"
  /\ Len(chunked) = 2
  /\ \A g \in ItemsOf(1) : outcome[g] = "pending"
  /\ \E g \in ItemsOf(2) : outcome[g] = "answered"
  /\ files[2].exists

\* the variants of the work items this invocation put in chunk c
VariantsOf(c) == {records[g].variant_description : g \in ItemsOf(c)}

\* C25: whatever the earlier invocations on the output directory were, once
\* this invocation has chunked its work items every chunk file holds results
\* of work items of its chunk only, and when the loop is over every work
\* item was queried or is in a chunk whose file was written for that chunk's
\* work items
C25_ChunkFilesMatchLatestRun ==
  Chunked =>
    /\ \A c \in ChunkIds :
         files[c].exists =>
           \A i \in 1..Len(files[c].rows) : files[c].rows[i].variant \in VariantsOf(c)
    /\ LoopOver =>
         \A g \in 1..Len(records) :
           \/ outcome[g] \in Terminal
           \/ \E c \in existing :
                /\ g \in ItemsOf(c)
                /\ \A i \in 1..Len(files[c].rows) :
                     files[c].rows[i].variant \in VariantsOf(c)

\* the final merge has been called and has returned or raised
GatherOver == pc = "qry_done" \/ (pc = "raised" /\ error = "ValueError")

\* the mismatch row m has the result r as its oracle fields in the table
MergedAs(table, m, r) ==
  \E j \in 1..Len(table) :
    /\ table[j].variant_description = m.variant_description
    /\ table[j].Feature = m.Feature
    /\ table[j].HGVSc_validator = r.HGVSc_validator
    /\ table[j].HGVSp_validator = r.HGVSp_validator

\* C26: once the loop over the chunks is over and the final merge has been
\* called, the merged table is written and every result of the chunk files
\* of this run whose variant and transcript are those of a mismatch row is
\* in the merged table as the oracle fields of that row
C26_GatherReadsChunkFiles ==
  GatherOver =>
    /\ final_merged.exists
    /\ \A c \in 1..Len(chunked) :
         \A i \in 1..Len(files[c].rows), k \in 1..Len(mismatches_df) :
           LET r == files[c].rows[i]
               m == mismatches_df[k]
           IN (r.variant = m.variant_description /\ r.Feature = m.Feature)
                => MergedAs(final_merged.rows, m, r)

\* the input file lacks a column the input contract requires
MissingColumn == \E c \in RequiredColumns : c \notin Header(input_file)

\* C18: when the input file lacks one of CHROM, POS, REF, ALT, Feature the
\* run never gets past loading (reading and grouping), where it ends with an
\* error: no request is ever sent, no chunk file is written or changed and
\* no merged file is written
C18_MissingColumnAbortsAtLoad ==
  MissingColumn =>
    /\ pc \in {"qry_read", "qry_group", "raised"}
    /\ pc = "raised" => error = "KeyError"
    /\ num_calls = 0 /\ attempt = 0 /\ statuses = <<>> /\ since_sent = TicksPerSec
    /\ \A c \in DOMAIN files : files[c] = (IF c \in existing THEN FileOf(PrevRows) ELSE NoFile)
    /\ final_merged = NoFile

\* a file without the column POS made the run end at load time
C18_Witness ==
  /\ "POS" \notin Header(input_file)
  /\ pc = "raised"
  /\ error = "KeyError"

(***************************************************************************)
(* Claims about the Reconciler (checked under SpecReconcile)               *)
(***************************************************************************)
\* merge_mismatches_batch has returned
Merged == pc \in {"rc_convention", "rc_flags", "rc_changes", "rc_done"}

\* the batch output has a line for the key of this mismatch row
HasOracleLine(m) == \E i \in 1..Len(parsed_vv_batch) : KeyOf(parsed_vv_batch[i]) = KeyOf(m)

\* C9: every row of the mismatch table is in the reconciled table, and a row
\* the oracle has no result for is there with null oracle fields
C9_EveryMismatchRetained ==
  Merged =>
    \A i \in 1..Len(rc_mismatches_df) :
      \E j \in 1..Len(validator_merged) :
        /\ KeyOf(validator_merged[j]) = KeyOf(rc_mismatches_df[i])
        /\ ~HasOracleLine(rc_mismatches_df[i]) =>
             /\ IsNaN(validator_merged[j].HGVSc_validator)
             /\ IsNaN(validator_merged[j].HGVSp_validator)

\* convention_changes has returned
Normalised == pc \in {"rc_flags", "rc_changes", "rc_done"}

\* C10: every oracle protein value that ends with p.? is "." after
\* convention_changes, in the frame and in the file written from it
C10_PlaceholderBecomesDot ==
  Normalised =>
    /\ Len(merged_df) = Len(validator_merged)
    /\ \A i \in 1..Len(validator_merged) :
         EndsWith(validator_merged[i].HGVSp_validator, Placeholder) =>
           /\ merged_df[i].HGVSp_validator = Dot
           /\ merged_tsv[i].HGVSp_validator = Dot

\* a merged row had a protein value ending with p.? and now has "."
C10_Witness ==
  /\ pc = "rc_flags"
  /\ \E i \in 1..Len(validator_merged) :
       /\ validator_merged[i].HGVSp_validator = VvUnknown
       /\ merged_df[i].HGVSp_validator = Dot

\* the text with every %3D read back as an equals sign
RECURSIVE DecodeEquals(_)
DecodeEquals(t) ==
  IF t = <<>> THEN <<>>
  ELSE IF Len(t) >= 3 /\ SubSeq(t, 1, 3) = <<"%", "3", "D">>
  THEN <<"=">> \o DecodeEquals(SubSeq(t, 4, Len(t)))
  ELSE <<Head(t)>> \o DecodeEquals(Tail(t))

\* the text without its parentheses
WithoutParens(t) == SelectSeq(t, LAMBDA c : c # "(" /\ c # ")")

\* C13: after convention_changes no oracle protein value contains "(", ")" or
\* "="; a value that is not the placeholder is what the oracle wrote with the
\* parentheses removed and every "=" written %3D; every other column of the
\* row (the oracle HGVSc, the fields of both VEP versions, the key) is as the
\* merge returned it
C13_OnlyOracleProteinNormalised ==
  Normalised =>
    /\ Len(merged_df) = Len(validator_merged)
    /\ \A i \in 1..Len(validator_merged) :
         LET before == validator_merged[i]
             after == merged_df[i]
         IN /\ \A j \in 1..Len(after.HGVSp_validator) :
                 after.HGVSp_validator[j] \notin {"(", ")", "="}
            /\ ~EndsWith(before.HGVSp_validator, Placeholder) =>
                 DecodeEquals(after.HGVSp_validator) = WithoutParens(before.HGVSp_validator)
            /\ \A f \in DOMAIN before \ {"HGVSp_validator"} : after[f] = before[f]

\* a merged row had the protein value NP_1:p.(K1=), now written NP_1:p.K1%3D
C13_Witness ==
  /\ pc = "rc_flags"
  /\ \E i \in 1..Len(validator_merged) :
       /\ validator_merged[i].HGVSp_validator = VvSilent
       /\ merged_df[i].HGVSp_validator
            = <<"N", "P", "_", "1", ":", "p", ".", "K", "1", "%", "3", "D">>

\* C27: convention_changes applied to a frame it has returned gives that
\* frame back: the oracle protein values do not change a second time
C27_NormalisationIdempotent ==
  [][pc = "rc_applied" /\ pc' = "rc_applied" => merged_df' = merged_df]_vars

(***************************************************************************)
(* Claims about the classifier (checked under SpecClassify)                *)
(***************************************************************************)
\* find_new_changes has returned
Classified == pc = "rc_done"

\* the flags of one field: the transitions from the two mismatch flags, and
\* the mismatch flags from the values where the oracle has one
FlagsAgree(r, f) ==
  LET old == r[f \o "_old_mismatch"]
      new == r[f \o "_new_mismatch"]
  IN /\ r[f \o "_newly_corrected"] <=> (old /\ ~new)
     /\ r[f \o "_newly_wrong"] <=> (~old /\ new)
     /\ r[f \o "_both_mismatch"] <=> (old /\ new)
     /\ ~IsNaN(r[f \o "_validator"]) =>
          /\ old <=> r[f \o "_old"] # r[f \o "_validator"]
          /\ new <=> r[f \o "_new"] # r[f \o "_validator"]

\* C11: in every reconciled row and for each of HGVSc and HGVSp,
\* newly_corrected is true iff the old version mismatches the oracle and the
\* new one does not, newly_wrong iff the old one does not mismatch and the new
\* one does, both_mismatch iff both mismatch; a version mismatches an oracle
\* value when its value differs from it, and the flags of a field depend on
\* the values of that field alone
C11_TransitionFlags ==
  Classified =>
    \A i \in 1..Len(merged_df) :
      FlagsAgree(merged_df[i], "HGVSc") /\ FlagsAgree(merged_df[i], "HGVSp")

\* a row is newly corrected in HGVSc and newly wrong in HGVSp
C11_Witness ==
  /\ Classified
  /\ \E i \in 1..Len(merged_df) :
       /\ merged_df[i].HGVSc_newly_corrected /\ ~merged_df[i].HGVSc_newly_wrong
       /\ merged_df[i].HGVSp_newly_wrong /\ ~merged_df[i].HGVSp_newly_corrected
       /\ ~merged_df[i].HGVSc_both_mismatch

\* the count the classifier reports for a flag
CountOf(counts, col) ==
  counts[CHOOSE i \in 1..Len(counts) : counts[i].Mismatch_Type = col].Count

\* the rows whose flag is set, those without an oracle value left out
CountKnown(df, col, oracle) ==
  Cardinality({i \in 1..Len(df) : df[i][col] /\ ~IsNaN(df[i][oracle])})

\* main has joined a batch line without a protein to its mismatch row, and
\* the run has ended with an error: no flag was computed and no count written
NullOracleRowAborts ==
  /\ pc = "raised"
  /\ MaskHasNaN(validator_merged)
  /\ mismatch_counts = <<>>
  /\ change_counts = <<>>

\* C12: a reconciled row whose oracle value for a field is null is left out
\* of the computation of that field and of nothing else: the run classifies
\* the frame that holds it, the row has none of the flags of that field set
\* (per-version mismatch, both_mismatch, newly_corrected, newly_wrong) and
\* is in none of the counts of that field
C12_NullOracleExcluded ==
  /\ ~NullOracleRowAborts
  /\ Classified =>
    /\ \A i \in 1..Len(merged_df) :
         LET r == merged_df[i]
         IN /\ IsNaN(r.HGVSc_validator) =>
                 ~(\/ r.HGVSc_old_mismatch \/ r.HGVSc_new_mismatch \/ r.HGVSc_both_mismatch
                   \/ r.HGVSc_newly_corrected \/ r.HGVSc_newly_wrong)
            /\ IsNaN(r.HGVSp_validator) =>
                 ~(\/ r.HGVSp_old_mismatch \/ r.HGVSp_new_mismatch \/ r.HGVSp_both_mismatch
                   \/ r.HGVSp_newly_corrected \/ r.HGVSp_newly_wrong)
    /\ \A col \in {"HGVSc_old_mismatch", "HGVSc_new_mismatch", "HGVSc_both_mismatch"} :
         CountOf(mismatch_counts, col) = CountKnown(merged_df, col, "HGVSc_validator")
    /\ \A col \in {"HGVSp_old_mismatch", "HGVSp_new_mismatch", "HGVSp_both_mismatch"} :
         CountOf(mismatch_counts, col) = CountKnown(merged_df, col, "HGVSp_validator")
    /\ \A col \in {"HGVSc_newly_wrong", "HGVSc_newly_corrected"} :
         CountOf(change_counts, col) = CountKnown(merged_df, col, "HGVSc_validator")
    /\ \A col \in {"HGVSp_newly_wrong", "HGVSp_newly_corrected"} :
         CountOf(change_counts, col) = CountKnown(merged_df, col, "HGVSp_validator")

\* the positions of the rows of the frame whose flag col is set
Flagged(df, col) == {i \in 1..Len(df) : df[i][col]}

\* C23: for each of the four transition categories the count reported is
\* the number of reconciled rows whose flag is set, and the detail file of
\* the category holds as many rows: every row whose flag is set, and no row
\* whose flag is not set
C23_CountsAndDetailFiles ==
  Classified =>
    \A c \in 1..Len(ChangeCols) :
      LET col == ChangeCols[c]
          file == detail_files[c]
      IN /\ change_counts[c].Mismatch_Type = col
         /\ change_counts[c].Count = Cardinality(Flagged(merged_df, col))
         /\ Len(file) = Cardinality(Flagged(merged_df, col))
         /\ \A j \in 1..Len(file) : file[j][col]
         /\ \A i \in Flagged(merged_df, col) : merged_df[i] \in Range(file)
         /\ \A j \in 1..Len(file) : file[j] \in Range(merged_df)

\* of two reconciled rows one is newly wrong in HGVSp and the other is not:
\* the count is 1 and the detail file holds the one row
C23_Witness ==
  /\ Classified
  /\ Len(merged_df) = 2
  /\ merged_df[1].HGVSp_newly_wrong
  /\ ~merged_df[2].HGVSp_newly_wrong
  /\ CountOf(change_counts, "HGVSp_newly_wrong") = 1
  /\ detail_files[2] = <<merged_df[1]>>

\* the flags of one field partition the mismatches of the two versions
FlagsPartition(r, f) ==
  LET both == r[f \o "_both_mismatch"]
      corrected == r[f \o "_newly_corrected"]
      wrong == r[f \o "_newly_wrong"]
  IN /\ ~(both /\ corrected) /\ ~(both /\ wrong) /\ ~(corrected /\ wrong)
     /\ r[f \o "_old_mismatch"] <=> (both \/ corrected)
     /\ r[f \o "_new_mismatch"] <=> (both \/ wrong)

\* the counts of one field add up
CountsAddUp(f) ==
  /\ CountOf(mismatch_counts, f \o "_old_mismatch")
       = CountOf(mismatch_counts, f \o "_both_mismatch")
         + CountOf(change_counts, f \o "_newly_corrected")
  /\ CountOf(mismatch_counts, f \o "_new_mismatch")
       = CountOf(mismatch_counts, f \o "_both_mismatch")
         + CountOf(change_counts, f \o "_newly_wrong")

\* C28: in every reconciled row and for each of HGVSc and HGVSp at most one
\* of both_mismatch, newly_corrected and newly_wrong is set, the old version
\* mismatches iff both_mismatch or newly_corrected is set and the new one iff
\* both_mismatch or newly_wrong is set; so the count of old-version
\* mismatches is the count of both_mismatch plus that of newly_corrected, and
\* the count of new-version mismatches that of both_mismatch plus newly_wrong
C28_FlagsPartitionMismatches ==
  Classified =>
    /\ \A i \in 1..Len(merged_df) :
         FlagsPartition(merged_df[i], "HGVSc") /\ FlagsPartition(merged_df[i], "HGVSp")
    /\ CountsAddUp("HGVSc")
    /\ CountsAddUp("HGVSp")

\* two rows mismatch in the old version's HGVSp: one in both versions, the
\* other newly corrected
C28_Witness ==
  /\ Classified
  /\ CountOf(mismatch_counts, "HGVSp_old_mismatch") = 2
  /\ CountOf(mismatch_counts, "HGVSp_both_mismatch") = 1
  /\ CountOf(change_counts, "HGVSp_newly_corrected") = 1

\* the flags of one field against the values of the two versions
FlagsFollowVersions(r, f) ==
  LET old == r[f \o "_old_mismatch"]
      new == r[f \o "_new_mismatch"]
  IN /\ r[f \o "_old"] = r[f \o "_new"] =>
          /\ old <=> new
          /\ ~r[f \o "_newly_corrected"]
          /\ ~r[f \o "_newly_wrong"]
     /\ r[f \o "_old"] # r[f \o "_new"] => (old \/ new)

\* C29: in every reconciled row and for each of HGVSc and HGVSp, when the
\* two versions have the same value the two mismatch flags are equal and
\* neither newly_corrected nor newly_wrong is set; when they have different
\* values at least one of the two mismatch flags is set
C29_FlagsFollowVersions ==
  Classified =>
    \A i \in 1..Len(merged_df) :
      /\ FlagsFollowVersions(merged_df[i], "HGVSc")
      /\ FlagsFollowVersions(merged_df[i], "HGVSp")

\* a row whose versions agree on HGVSc and match the oracle, and differ on
\* HGVSp, of which only the old one mismatches
C29_Witness ==
  /\ Classified
  /\ \E i \in 1..Len(merged_df) :
       LET r == merged_df[i]
       IN /\ r.HGVSc_old = r.HGVSc_new
          /\ ~r.HGVSc_old_mismatch /\ ~r.HGVSc_new_mismatch
          /\ r.HGVSp_old # r.HGVSp_new
          /\ r.HGVSp_old_mismatch /\ ~r.HGVSp_new_mismatch

\* the four components of a key as the description spells them
Components(r) == <<r.CHROM, IntToStr(r.POS), r.REF, r.ALT>>

\* the rows of the mismatches file with the description built for each
Described == read_in_mismatches(mismatches_tsv).df

\* C30: the variant description round-trips: splitting the description that
\* read_in_mismatches built with parse_validator_batch gives back the four
\* original components, two distinct keys never share a description, and a
\* reconstructed key joins to the mismatch row it was built from (a batch
\* output without any transcript ends the run before the split, and a line
\* without a transcript has no Feature to join on)
C30_DescriptionRoundTrips ==
  /\ \A i, j \in 1..Len(Described) :
       Described[i].variant_description = Described[j].variant_description
         => Components(Described[i]) = Components(Described[j])
  /\ (pc \in {"rc_merge", "rc_convention", "raised"} /\ error # "AttributeError") =>
       /\ error = "none"
       /\ \A i \in 1..Len(parsed_vv_batch) :
            \E j \in 1..Len(Described) :
              /\ Described[j].variant_description = vv_batch_df[i].Variant
              /\ Components(parsed_vv_batch[i]) = Components(Described[j])
  /\ pc = "rc_convention" =>
       \A i \in 1..Len(parsed_vv_batch) :
         ~IsNaN(parsed_vv_batch[i].Feature) =>
           \E j \in 1..Len(validator_merged) :
             KeyOf(validator_merged[j]) = KeyOf(parsed_vv_batch[i])

(***************************************************************************)
(* Claims about format_results (checked under SpecFormat)                  *)
(***************************************************************************)
\* the (variant, transcript, entry) triples under the hgvs_t_and_p maps of
\* the keys of the body other than metadata
PairsOf(resp) ==
  UNION {LET m == Get(Get(resp.items[i].v, resp.items[i].k, JDict(<<>>)),
                      Hgvs_t_and_p, JDict(<<>>))
         IN {[variant |-> resp.items[i].k, Feature |-> m.items[j].k, hgvs |-> m.items[j].v] :
               j \in 1..Len(m.items)} :
         i \in {n \in 1..Len(resp.items) : resp.items[n].k # Metadata}}

\* C14: when format_results returns, its list has exactly one result for
\* each (variant, transcript) pair under the hgvs_t_and_p map of a variant,
\* with the variant description, the transcript and the two descriptions the
\* oracle gave for it (null when it gave none), and it has no other result:
\* none comes from the key metadata
C14_OneResultPerPair ==
  pc = "fmt_done" =>
    /\ \A q \in PairsOf(response) :
         Cardinality({i \in 1..Len(formatted) :
                        /\ formatted[i].variant = q.variant
                        /\ formatted[i].Feature = q.Feature}) = 1
    /\ \A i \in 1..Len(formatted) :
         /\ formatted[i].variant # Metadata
         /\ \E q \in PairsOf(response) :
              /\ formatted[i].variant = q.variant
              /\ formatted[i].Feature = q.Feature
              /\ formatted[i].HGVSc_validator = CellOf(Get(q.hgvs, T_hgvs, JNull))
              /\ formatted[i].HGVSp_validator = CellOf(Get(q.hgvs, P_hgvs_tlc, JNull))

\* a body with two transcripts and a metadata entry shaped like a variant's
\* was formatted into two results
C14_Witness ==
  /\ pc = "fmt_done"
  /\ Len(formatted) = 2
  /\ \E i \in 1..Len(response.items) :
       response.items[i].k = Metadata /\ response.items[i].v.items # <<>>
  /\ \E i \in 1..Len(formatted) : formatted[i].HGVSp_validator = VvHp1

====
